---- MODULE Spec2Model ----
(***************************************************************************)
(* loki-master-control: the privileged request broker (daemon/src/main.rs) *)
(* and the fan control of the UI (ui/src/main.rs, ui/src/gui.rs).          *)
(*                                                                         *)
(* Text is modelled as a sequence of tokens (each token a string), so that *)
(* format!, to_string and the JSON encoding build and take apart values    *)
(* instead of passing them through.                                        *)
(*                                                                         *)
(* In the broker part "main.rs" is daemon/src/main.rs; in the fan part it  *)
(* is ui/src/main.rs, whose fan code ui/src/gui.rs repeats (helpers at     *)
(* main.rs + 27, the fan section at main.rs + 104) except write_to_sysfs.  *)
(***************************************************************************)
EXTENDS Integers, Sequences, FiniteSets, Bags, TLC

VARIABLES
    mainPc,     \* daemon main: "remove", "bind", "chmod", "accept" (the loop) or "exited"
    mainErr,    \* the io::Error main returned with ("none" while running)
    nAccepted,  \* connections accepted so far; connection i is the i-th accepted
    conns,      \* per connection: the handler task, its stream and its peer
    files,      \* the file system the broker writes to: path -> content
    variant,       \* how the UI writes: "direct" (ui main.rs) or "daemon" (ui gui.rs)
    fan_base,      \* build_ui's fan_base: pwm_base(), the hwmon directory if found
    profileState,  \* profile_state: Arc<Mutex<Option<&[FanPoint; 5]>>>
    lock,          \* who holds the mutex of profile_state: "free", "loop" or "ui"
    button,        \* the active fan mode button ("none" before any selection)
    slider,        \* manual_speed.value()
    uiPc,          \* where the GTK main thread is inside a handler ("idle" outside)
    uiQueue,       \* the toggled signals GTK still has to emit for the last click
    uiCur,         \* the button whose toggled handler is running
    uiWrites,      \* the write_to_sysfs calls of the handler that runs or ran last
    loopPc,        \* where the fan loop thread is ("off": never spawned)
    loopProf,      \* the loop's local prof
    loopTemp,      \* the loop's local temp, in thousandths of a degree
    loopPwm,       \* the loop's local pwm
    loopReads,     \* the sensor files the read_temp call that just returned has read
    tickWrites,    \* the write_to_sysfs calls of the tick that runs or ran last
    sysfs,         \* pwm1_enable and pwm1 of the hwmon directory
    inflight,      \* requests handed to daemon_send and not yet performed
    evCurve,       \* eval_curve on its own: the argument curve
    evTemp,        \* the argument temp, in thousandths of a degree
    evOut,         \* the value returned (NotCalled before the call)
    evSlider,      \* the duty computations on their own: manual_speed.value()
    evDuty,        \* the pwm each of the three computations gave (NoDuty before)
    PWM_BASE,         \* static PWM_BASE: OnceLock<Option<String>>
    MAX_BRIGHTNESS,   \* static MAX_BRIGHTNESS: OnceLock<u32>
    BRIGHTNESS_PATH,  \* static BRIGHTNESS_PATH: OnceLock<String>
    scans,            \* the discoveries run so far, of the hwmon and the backlight directory
    calls,            \* the calls made so far of each of the three functions
    lastCall,         \* the last call: the function and what it returned or issued
    sends,            \* the tasks daemon_send spawned (gui.rs): one per call
    applied,          \* the daemon_send calls whose request the broker has performed, in order
    sock,             \* daemon: the entry at SOCK_PATH and what main did to it
    rgbMode,          \* the active RGB mode button: "off", "breathe" or "manual"
    hue,              \* the hue cell, in degrees
    brightness,       \* the RGB brightness Scale's value
    pending,          \* pending: Rc<RefCell<Option<SourceId>>>
    timers,           \* the timeout sources registered with the GLib main loop
    nextSource,       \* the SourceId the next timeout_add_local returns
    rgbWrites,        \* the requests the last RGB handler or callback issued
    lastApply,        \* the requests of the last run of apply_settings
    unapplied         \* a change event has run since the last apply_settings

brokerVars == <<mainPc, mainErr, nAccepted, conns, files>>
uiLocals == <<button, slider, uiPc, uiQueue, uiCur, uiWrites>>
loopLocals == <<loopPc, loopProf, loopTemp, loopPwm, loopReads, tickWrites>>
fanVars == <<variant, fan_base, profileState, lock, uiLocals, loopLocals, sysfs, inflight>>
evalVars == <<evCurve, evTemp, evOut, evSlider, evDuty>>
cacheVars == <<PWM_BASE, MAX_BRIGHTNESS, BRIGHTNESS_PATH, scans, calls, lastCall>>
sendVars == <<sends, applied>>
startVars == <<sock>>
rgbVars == <<rgbMode, hue, brightness, pending, timers, nextSource, rgbWrites, lastApply, unapplied>>
auxVars == <<startVars, rgbVars>>
halVars == <<cacheVars, sendVars, auxVars>>
vars == <<brokerVars, fanVars, evalVars, halVars>>

(***************************************************************************)
(* Bounds of the model.                                                    *)
(***************************************************************************)
MaxConns == 2

\* the calls of pwm_base, read_max_brightness and write_brightness looked at
MaxCalls == 3

\* the calls of daemon_send looked at
MaxSends == 2

\* the apply timers the RGB scheduler may register
MaxTimers == 3

ConnIds == 1..MaxConns

(***************************************************************************)
(* Option<String> and Response (daemon main.rs 16-20).                     *)
(***************************************************************************)
None == [some |-> FALSE, text |-> <<>>]
Some(t) == [some |-> TRUE, text |-> t]

Response(s, e) == [success |-> s, error |-> e]

(***************************************************************************)
(* The lines a peer may send.  A line is its UTF-8 validity, whether it is *)
(* a JSON object, and the object's fields.                                 *)
(***************************************************************************)
V5 == <<"5">>
V128 == <<"1", "2", "8">>
OldContent == <<"9", "9", "9", "9">>

LineWrite(p, v) ==
    [utf8 |-> TRUE, obj |-> TRUE, f |-> [cmd |-> "write", path |-> p, value |-> v]]
LineRun(prog, a) ==
    [utf8 |-> TRUE, obj |-> TRUE, f |-> [cmd |-> "run", program |-> prog, args |-> a]]
LineNotJson == [utf8 |-> TRUE, obj |-> FALSE, f |-> [raw |-> "not json"]]
LineEmpty == [utf8 |-> TRUE, obj |-> FALSE, f |-> [raw |-> ""]]
LineNoValue == [utf8 |-> TRUE, obj |-> TRUE, f |-> [cmd |-> "write", path |-> "/f"]]
LineUnknownCmd == [utf8 |-> TRUE, obj |-> TRUE, f |-> [cmd |-> "delete", path |-> "/f"]]
LineBadUtf8 == [utf8 |-> FALSE, obj |-> FALSE, f |-> [raw |-> "\\xff"]]

ValidLines ==
    { LineWrite("/f", V5), LineWrite("/f", V128), LineWrite("/nodir/x", V5),
      LineRun("true", <<>>), LineRun("false", <<>>), LineRun("nosuch", <<>>) }
MalformedLines == { LineNotJson, LineEmpty, LineNoValue, LineUnknownCmd }

\* What a peer sends on one connection: one line, or a line followed by more.
PeerInputs ==
    { <<l>> : l \in ValidLines \cup MalformedLines \cup {LineBadUtf8} }
    \cup { <<LineNotJson, LineWrite("/f", V5)>>,
           <<LineWrite("/f", V5), LineRun("true", <<>>)>> }

(***************************************************************************)
(* The environment: directories, installed programs, OS error texts.       *)
(***************************************************************************)
Paths == {"/f", "/nodir/x"}
ParentExists(p) == p = "/f"
Installed == {"true", "false"}

ENOENT == <<"No such file or directory (os error 2)">>
ENOSPC == <<"No space left on device (os error 28)">>

Exited(code) == [kind |-> "exit", n |-> code]
Signaled(sig) == [kind |-> "signal", n |-> sig]
NoStatus == [kind |-> "none", n |-> 0]
Running == [kind |-> "running", n |-> 0]

\* How a started program can end: its own exit code, or killed by a signal.
Outcomes(prog) ==
    { Exited(IF prog = "true" THEN 0 ELSE 1), Signaled(9) }

NumText(n) ==
    CASE n = 0 -> "0" [] n = 1 -> "1" [] n = 9 -> "9" [] OTHER -> "?"

(***************************************************************************)
(* serde_json::from_str::<Request> of an internally tagged enum            *)
(* (daemon main.rs 9-14, 43).                                             *)
(***************************************************************************)
NoReq == [cmd |-> "none"]
ParseOk(r) == [ok |-> TRUE, req |-> r, err |-> <<>>]
ParseErr(e) == [ok |-> FALSE, req |-> NoReq, err |-> e]

ParseRequest(line) ==
    IF ~line.obj
    THEN IF line.f.raw = ""
         THEN ParseErr(<<"EOF while parsing a value at line 1 column 0">>)
         ELSE ParseErr(<<"expected ident at line 1 column 2">>)
    ELSE IF "cmd" \notin DOMAIN line.f
    THEN ParseErr(<<"missing field 'cmd'">>)
    ELSE IF line.f.cmd = "write"
    THEN IF "path" \notin DOMAIN line.f THEN ParseErr(<<"missing field 'path'">>)
         ELSE IF "value" \notin DOMAIN line.f THEN ParseErr(<<"missing field 'value'">>)
         ELSE ParseOk([cmd |-> "write", path |-> line.f.path, value |-> line.f.value])
    ELSE IF line.f.cmd = "run"
    THEN IF "program" \notin DOMAIN line.f THEN ParseErr(<<"missing field 'program'">>)
         ELSE IF "args" \notin DOMAIN line.f THEN ParseErr(<<"missing field 'args'">>)
         ELSE ParseOk([cmd |-> "run", program |-> line.f.program, args |-> line.f.args])
    ELSE ParseErr(<<"unknown variant '", line.f.cmd, "', expected 'write' or 'run'">>)

(***************************************************************************)
(* The responses handle_client and process_request build.                  *)
(***************************************************************************)
ParseErrorResponseNoPrefix(e) == Response(FALSE, Some(e))
\* main.rs 47: format!("parse error: {e}")
ParseErrorResponse(e) == Response(FALSE, Some(<<"parse error: ">> \o e))

\* main.rs 63-66: the result of tokio::fs::write
WriteResponse(res) ==
    IF res = <<>> THEN Response(TRUE, None) ELSE Response(FALSE, Some(res))

\* Display of std::process::ExitStatus on Unix
DisplayExitStatus(st) ==
    IF st.kind = "exit" THEN <<"exit status: ", NumText(st.n)>>
    ELSE <<"signal: ", NumText(st.n)>>

\* main.rs 74-83: status.success() is "exited with code 0"
RunResponse(st) ==
    IF st.kind = "exit" /\ st.n = 0
    THEN Response(TRUE, None)
    ELSE Response(FALSE, Some(<<"exit status: ">> \o DisplayExitStatus(st)))

SpawnErrorResponseNoText(e) == Response(FALSE, None)
\* main.rs 84: the spawn failed
SpawnErrorResponse(e) == Response(FALSE, Some(e))

(***************************************************************************)
(* serde_json::to_string(&resp)? + "\n" (main.rs 48, 55), and the reading  *)
(* of such a line by the peer.                                             *)
(***************************************************************************)
Serialize(resp) ==
    <<"{\"success\":", IF resp.success THEN "true" ELSE "false", ",\"error\":">>
    \o (IF resp.error.some THEN <<"\"">> \o resp.error.text \o <<"\"">> ELSE <<"null">>)
    \o <<"}", "\n">>

WireSuccess(w) == w[2] = "true"
WireErrorIsNull(w) == w[4] = "null"
WireErrorText(w) == IF w[4] = "\"" THEN SubSeq(w, 5, Len(w) - 3) ELSE <<>>

(***************************************************************************)
(* std::fs::write: File::create (O_WRONLY|O_CREAT|O_TRUNC), then write_all *)
(* from offset 0 of the descriptor.                                        *)
(***************************************************************************)
NoFile == [exists |-> FALSE, data |-> <<>>]

FsCreate(file) == [exists |-> TRUE, data |-> <<>>]

FsWriteAll(file, v) ==
    [exists |-> TRUE,
     data |-> v \o SubSeq(file.data, Len(v) + 1, Len(file.data))]

(***************************************************************************)
(* Connections.                                                            *)
(***************************************************************************)
NoConn ==
    [pc |-> "closed", sent |-> <<>>, nread |-> 0, line |-> LineEmpty, req |-> NoReq,
     child |-> NoStatus, resp |-> Response(FALSE, None), sys |-> <<>>,
     out |-> <<>>, err |-> "none"]

\* main.rs 40-41: a fresh handler, its line buffer empty
NewConn == [NoConn EXCEPT !.pc = "read"]

Sys(call, res) == [call |-> call, res |-> res]

BrokerInit ==
    /\ mainPc = "accept"
    /\ mainErr = "none"
    /\ nAccepted = 0
    /\ conns = [c \in ConnIds |-> NoConn]
    /\ files = [p \in Paths |-> IF p = "/f" THEN [exists |-> TRUE, data |-> OldContent]
                                             ELSE NoFile]

Alive == mainPc = "accept"

(***************************************************************************)
(* main.rs 24-27: the start of main.  The entry at SOCK_PATH is absent, a  *)
(* socket a former run left, a regular file or a directory, and /run can   *)
(* be written by the process or not.                                       *)
(***************************************************************************)
SockEntries == {"absent", "socket", "file", "dir"}

NoSock(e, w) ==
    [was |-> e, entry |-> e, writable |-> w, mode |-> "none", removed |-> "none",
     chmod |-> "none"]

\* the socket as a completed start leaves it
SockReady ==
    [was |-> "absent", entry |-> "listening", writable |-> TRUE, mode |-> "0666",
     removed |-> "ENOENT", chmod |-> "ok"]

\* std::fs::remove_file (unlink)
remove_file(e, w) ==
    IF e = "absent" THEN "ENOENT"
    ELSE IF e = "dir" THEN "EISDIR"
    ELSE IF ~w THEN "EACCES"
    ELSE "ok"

\* UnixListener::bind
bind(e, w) ==
    IF e # "absent" THEN "EADDRINUSE"
    ELSE IF ~w THEN "EACCES"
    ELSE "ok"

\* main.rs 24: let _ = drops the result
AfterRemoveChecked(res) == IF res = "ok" THEN "bind" ELSE "exited"
AfterRemove(res) == "bind"

\* main.rs 27: let _ = drops the result
AfterChmod(res) == "accept"

StartInit ==
    /\ mainPc = "remove"
    /\ mainErr = "none"
    /\ nAccepted = 0
    /\ conns = [c \in ConnIds |-> NoConn]
    /\ files = [p \in Paths |-> IF p = "/f" THEN [exists |-> TRUE, data |-> OldContent]
                                             ELSE NoFile]
    /\ \E e \in SockEntries, w \in BOOLEAN : sock = NoSock(e, w)

\* main.rs 24
StartRemove ==
    /\ mainPc = "remove"
    /\ LET res == remove_file(sock.entry, sock.writable)
       IN /\ sock' = [sock EXCEPT
                 !.removed = res,
                 !.entry = IF res = "ok" THEN "absent" ELSE @]
          /\ mainPc' = AfterRemove(res)
          /\ mainErr' = IF AfterRemove(res) = "exited" THEN "remove" ELSE mainErr
    /\ UNCHANGED <<nAccepted, conns, files>>
    /\ UNCHANGED <<fanVars, evalVars, cacheVars, sendVars, rgbVars>>

\* main.rs 25: bind(SOCK_PATH)? returns the error from main; the socket is
\* created with the mode the umask leaves
StartBind ==
    /\ mainPc = "bind"
    /\ LET res == bind(sock.entry, sock.writable)
       IN IF res = "ok"
          THEN /\ sock' = [sock EXCEPT !.entry = "listening", !.mode = "0755"]
               /\ mainPc' = "chmod"
               /\ UNCHANGED mainErr
          ELSE /\ mainPc' = "exited"
               /\ mainErr' = "bind"
               /\ UNCHANGED sock
    /\ UNCHANGED <<nAccepted, conns, files>>
    /\ UNCHANGED <<fanVars, evalVars, cacheVars, sendVars, rgbVars>>

\* main.rs 27: set_permissions(SOCK_PATH, 0o666) succeeds or fails
StartChmod ==
    /\ mainPc = "chmod"
    /\ \E res \in {"ok", "EPERM"} :
          /\ sock' = [sock EXCEPT
                 !.chmod = res,
                 !.mode = IF res = "ok" THEN "0666" ELSE @]
          /\ mainPc' = AfterChmod(res)
    /\ UNCHANGED <<mainErr, nAccepted, conns, files>>
    /\ UNCHANGED <<fanVars, evalVars, cacheVars, sendVars, rgbVars>>

(***************************************************************************)
(* main.rs 29-36: the accept loop.                                         *)
(***************************************************************************)
CanAcceptSequential == \A c \in ConnIds : conns[c].pc \in {"closed", "done", "failed"}
\* main.rs 31: the handler is spawned, the loop does not wait for it
CanAccept == TRUE

AcceptOk ==
    /\ Alive
    /\ CanAccept
    /\ nAccepted < MaxConns
    /\ nAccepted' = nAccepted + 1
    /\ conns' = [conns EXCEPT ![nAccepted + 1] = NewConn]
    /\ UNCHANGED <<mainPc, mainErr, files>>
    /\ UNCHANGED <<fanVars, evalVars, halVars>>

\* main.rs 30: accept().await? returns the error from main
AcceptErr ==
    /\ Alive
    /\ mainPc' = "exited"
    /\ mainErr' = "accept"
    /\ UNCHANGED <<nAccepted, conns, files>>
    /\ UNCHANGED <<fanVars, evalVars, halVars>>

\* The peer of an accepted connection sends its bytes.
PeerSend(c) ==
    /\ Alive
    /\ conns[c].pc = "read"
    /\ conns[c].sent = <<>>
    /\ \E s \in PeerInputs : conns' = [conns EXCEPT ![c].sent = s]
    /\ UNCHANGED <<mainPc, mainErr, nAccepted, files>>
    /\ UNCHANGED <<fanVars, evalVars, halVars>>

(***************************************************************************)
(* main.rs 32-34: what a handler's error does to main.                     *)
(***************************************************************************)
ClientErrorPropagated(m, e) == [pc |-> "exited", err |-> e]
ClientError(m, e) == m

MainState == [pc |-> mainPc, err |-> mainErr]

\* main.rs 54: the stream a handler answers on is the one it read from
StreamOfFirst(c) == 1
StreamOf(c) == c

\* main.rs 57-58: the handler returns and the stream is dropped
AfterRespondLoop(cn) == IF cn.nread < Len(cn.sent) THEN "read" ELSE "done"
AfterRespond(cn) == "done"

(***************************************************************************)
(* handle_client (main.rs 39-58) and process_request (60-88), one action   *)
(* per await point.                                                        *)
(***************************************************************************)
\* main.rs 42-53: read_line, then the parse and the dispatch
HandleRead(c) ==
    /\ Alive
    /\ conns[c].pc = "read"
    /\ conns[c].nread < Len(conns[c].sent)
    /\ LET l == conns[c].sent[conns[c].nread + 1]
           p == ParseRequest(l)
       IN IF ~l.utf8
          THEN LET m == ClientError(MainState, "InvalidData")
               IN /\ conns' = [conns EXCEPT
                         ![c].pc = "failed",
                         ![c].nread = @ + 1,
                         ![c].err = "InvalidData"]
                  /\ mainPc' = m.pc
                  /\ mainErr' = m.err
          ELSE /\ conns' = [conns EXCEPT
                      ![c].line = l,
                      ![c].nread = @ + 1,
                      ![c].req = p.req,
                      ![c].resp = IF p.ok THEN @ ELSE ParseErrorResponse(p.err),
                      ![c].pc = IF ~p.ok THEN "respond"
                                ELSE IF p.req.cmd = "write" THEN "fs_open"
                                ELSE "spawn"]
               /\ UNCHANGED <<mainPc, mainErr>>
    /\ UNCHANGED <<nAccepted, files>>
    /\ UNCHANGED <<fanVars, evalVars, halVars>>

\* main.rs 63: File::create of std::fs::write
HandleFsOpen(c) ==
    /\ Alive
    /\ conns[c].pc = "fs_open"
    /\ LET p == conns[c].req.path
       IN IF ParentExists(p)
          THEN /\ files' = [files EXCEPT ![p] = FsCreate(@)]
               /\ conns' = [conns EXCEPT
                      ![c].pc = "fs_write",
                      ![c].sys = Append(@, Sys("open", <<>>))]
          ELSE /\ conns' = [conns EXCEPT
                      ![c].pc = "respond",
                      ![c].sys = Append(@, Sys("open", ENOENT)),
                      ![c].resp = WriteResponse(ENOENT)]
               /\ UNCHANGED files
    /\ UNCHANGED <<mainPc, mainErr, nAccepted>>
    /\ UNCHANGED <<fanVars, evalVars, halVars>>

\* main.rs 63-66: write_all of std::fs::write, and the match on the result
HandleFsWrite(c) ==
    /\ Alive
    /\ conns[c].pc = "fs_write"
    /\ LET p == conns[c].req.path
       IN \/ /\ files' = [files EXCEPT ![p] = FsWriteAll(@, conns[c].req.value)]
             /\ conns' = [conns EXCEPT
                    ![c].pc = "respond",
                    ![c].sys = Append(@, Sys("write", <<>>)),
                    ![c].resp = WriteResponse(<<>>)]
          \/ /\ conns' = [conns EXCEPT
                    ![c].pc = "respond",
                    ![c].sys = Append(@, Sys("write", ENOSPC)),
                    ![c].resp = WriteResponse(ENOSPC)]
             /\ UNCHANGED files
    /\ UNCHANGED <<mainPc, mainErr, nAccepted>>
    /\ UNCHANGED <<fanVars, evalVars, halVars>>

\* main.rs 69-72, 84: Command::new(program).args(args).status() spawns the child
HandleSpawn(c) ==
    /\ Alive
    /\ conns[c].pc = "spawn"
    /\ IF conns[c].req.program \in Installed
       THEN conns' = [conns EXCEPT
                ![c].pc = "wait",
                ![c].child = Running,
                ![c].sys = Append(@, Sys("spawn", <<>>))]
       ELSE conns' = [conns EXCEPT
                ![c].pc = "respond",
                ![c].sys = Append(@, Sys("spawn", ENOENT)),
                ![c].resp = SpawnErrorResponse(ENOENT)]
    /\ UNCHANGED <<mainPc, mainErr, nAccepted, files>>
    /\ UNCHANGED <<fanVars, evalVars, halVars>>

\* main.rs 72-83: .await of the child's termination
HandleWait(c) ==
    /\ Alive
    /\ conns[c].pc = "wait"
    /\ \E st \in Outcomes(conns[c].req.program) :
          conns' = [conns EXCEPT
              ![c].pc = "respond",
              ![c].child = st,
              ![c].resp = RunResponse(st)]
    /\ UNCHANGED <<mainPc, mainErr, nAccepted, files>>
    /\ UNCHANGED <<fanVars, evalVars, halVars>>

\* main.rs 46-50 and 54-57: the response line is written; the write can fail
\* when the peer has gone
HandleRespond(c) ==
    /\ Alive
    /\ conns[c].pc = "respond"
    /\ \/ /\ conns' = [conns EXCEPT
                 ![StreamOf(c)].out = Append(@, Serialize(conns[c].resp)),
                 ![c].pc = AfterRespond(conns[c]),
                 ![c].err = "Ok"]
          /\ UNCHANGED <<mainPc, mainErr>>
       \/ LET m == ClientError(MainState, "EPIPE")
          IN /\ conns' = [conns EXCEPT ![c].pc = "failed", ![c].err = "EPIPE"]
             /\ mainPc' = m.pc
             /\ mainErr' = m.err
    /\ UNCHANGED <<nAccepted, files>>
    /\ UNCHANGED <<fanVars, evalVars, halVars>>

HandlerStep(c) ==
    \/ HandleRead(c)
    \/ HandleFsOpen(c)
    \/ HandleFsWrite(c)
    \/ HandleSpawn(c)
    \/ HandleWait(c)
    \/ HandleRespond(c)

(***************************************************************************)
(* The fan control of the UI (ui/src/main.rs and ui/src/gui.rs; the two     *)
(* files differ in write_to_sysfs only).                                   *)
(***************************************************************************)
MaxInflight == 2

FanPoint(t, p) == [temp |-> t, percent |-> p]

QUIET_CURVE ==
    <<FanPoint(40, 0), FanPoint(50, 20), FanPoint(60, 40), FanPoint(70, 70),
      FanPoint(80, 100)>>
AGGRESSIVE_CURVE ==
    <<FanPoint(30, 20), FanPoint(40, 40), FanPoint(50, 60), FanPoint(60, 80),
      FanPoint(70, 100)>>

\* Option<&'static [FanPoint; 5]>: None is the empty sequence, Some(c) is c
NoProfile == <<>>

\* A percentage as an exact fraction num/den; temperatures in thousandths of
\* a degree, as the sensor files give them.
Pct(n, d) == [num |-> n, den |-> d]

Digits == <<"0", "1", "2", "3", "4", "5", "6", "7", "8", "9">>
IsDigit(t) == \E d \in 1..Len(Digits) : Digits[d] = t
DigitValue(t) == (CHOOSE d \in 1..Len(Digits) : Digits[d] = t) - 1

\* u8::to_string
RECURSIVE U8ToString(_)
U8ToString(n) ==
    IF n < 10 THEN <<Digits[n + 1]>>
    ELSE U8ToString(n \div 10) \o <<Digits[(n % 10) + 1]>>

\* u32::to_string
RECURSIVE U32ToString(_)
U32ToString(n) ==
    IF n < 10 THEN <<Digits[n + 1]>>
    ELSE U32ToString(n \div 10) \o <<Digits[(n % 10) + 1]>>

\* str::trim of a sensor file's content
RECURSIVE Trim(_)
Trim(t) ==
    IF t # <<>> /\ t[Len(t)] = "\n" THEN Trim(SubSeq(t, 1, Len(t) - 1)) ELSE t

RECURSIVE DigitsValue(_)
DigitsValue(t) ==
    IF t = <<>> THEN 0
    ELSE 10 * DigitsValue(SubSeq(t, 1, Len(t) - 1)) + DigitValue(t[Len(t)])

\* str::parse::<f32> of a decimal integer text
ParseF32(t) ==
    IF t # <<>> /\ \A i \in 1..Len(t) : IsDigit(t[i])
    THEN [ok |-> TRUE, v |-> DigitsValue(t)]
    ELSE [ok |-> FALSE, v |-> 0]

\* A sensor file: unreadable, or readable with some content
Unreadable == [readable |-> FALSE, content |-> <<>>]
Content(t) == [readable |-> TRUE, content |-> t]

\* what read_temp returns, with the files it has read on the way
NoTemp == [some |-> FALSE, milli |-> 0, reads |-> <<>>]
SensorRead(idx, f) == [idx |-> idx, file |-> f]

RECURSIVE ReadTempFromLast(_, _)
ReadTempFromLast(sensors, idx) ==
    IF idx > 5 THEN NoTemp
    ELSE LET f == sensors[idx]
             r == ParseF32(Trim(f.content))
             rest == ReadTempFromLast(sensors, idx + 1)
         IN IF f.readable /\ r.ok /\ ~rest.some
            THEN [some |-> TRUE, milli |-> r.v, reads |-> <<SensorRead(idx, f)>> \o rest.reads]
            ELSE [rest EXCEPT !.reads = <<SensorRead(idx, f)>> \o @]

\* main.rs 253-263 / gui.rs 280-290: the first sensor of 1..=5 that reads and
\* parses; the value v / 1000.0 is kept as v thousandths
RECURSIVE ReadTempFrom(_, _)
ReadTempFrom(sensors, idx) ==
    IF idx > 5 THEN NoTemp
    ELSE LET f == sensors[idx]
             r == ParseF32(Trim(f.content))
         IN IF f.readable /\ r.ok
            THEN [some |-> TRUE, milli |-> r.v, reads |-> <<SensorRead(idx, f)>>]
            ELSE [ReadTempFrom(sensors, idx + 1) EXCEPT
                     !.reads = <<SensorRead(idx, f)>> \o @]

read_temp(sensors) == ReadTempFrom(sensors, 1)

RECURSIVE EvalSegmentsSwapped(_, _, _)
EvalSegmentsSwapped(curve, milli, i) ==
    IF i > Len(curve) - 1 THEN Pct(curve[Len(curve)].percent, 1)
    ELSE IF milli <= 1000 * curve[i + 1].temp
    THEN LET t0 == curve[i].temp
             p0 == curve[i].percent
             t1 == curve[i + 1].temp
             p1 == curve[i + 1].percent
             d == 1000 * (t1 - t0)
         IN Pct(p0 * d + (1000 * t1 - milli) * (p1 - p0), d)
    ELSE EvalSegmentsSwapped(curve, milli, i + 1)

\* main.rs 265-278 / gui.rs 292-305
RECURSIVE EvalSegments(_, _, _)
EvalSegments(curve, milli, i) ==
    IF i > Len(curve) - 1 THEN Pct(curve[Len(curve)].percent, 1)
    ELSE IF milli <= 1000 * curve[i + 1].temp
    THEN LET t0 == curve[i].temp
             p0 == curve[i].percent
             t1 == curve[i + 1].temp
             p1 == curve[i + 1].percent
             d == 1000 * (t1 - t0)
         IN Pct(p0 * d + (milli - 1000 * t0) * (p1 - p0), d)
    ELSE EvalSegments(curve, milli, i + 1)

eval_curveNoClamp(curve, milli) == EvalSegments(curve, milli, 1)
eval_curve(curve, milli) ==
    IF milli <= 1000 * curve[1].temp THEN Pct(curve[1].percent, 1)
    ELSE EvalSegments(curve, milli, 1)

\* f32::round: to the nearest integer, halves away from zero
Round(n, d) ==
    IF n >= 0 THEN (2 * n + d) \div (2 * d) ELSE 0 - ((2 * (0 - n) + d) \div (2 * d))

\* the cast "as u8" saturates
AsU8(x) == IF x < 0 THEN 0 ELSE IF x > 255 THEN 255 ELSE x

\* main.rs 524, 578-579, 592 / gui.rs 628, 682-683, 696:
\* ((pct / 100.0) * 255.0).round() as u8
PctToPwmTruncated(pct) == AsU8((pct.num * 255) \div (pct.den * 100))
PctToPwmUnscaled(pct) == AsU8(Round(pct.num, pct.den))
PctToPwm(pct) == AsU8(Round(pct.num * 255, pct.den * 100))

(***************************************************************************)
(* The environment of the fan control.                                     *)
(***************************************************************************)
T45 == <<"4", "5", "0", "0", "0", "\n">>
T75 == <<"7", "5", "0", "0", "0", "\n">>
Garbage == <<"n", "/", "a", "\n">>

SensorFiles ==
    { [i \in 1..5 |-> Unreadable],
      [i \in 1..5 |-> IF i = 1 THEN Content(T45) ELSE Content(T75)],
      [i \in 1..5 |-> IF i = 1 THEN Unreadable
                      ELSE IF i = 2 THEN Content(Garbage)
                      ELSE IF i = 3 THEN Content(T45) ELSE Content(T75)] }

SliderValues == {0, 100}
Buttons == {"auto", "quiet", "aggressive", "manual"}
Variants == {"direct", "daemon"}

BootEnable == <<"2">>
BootPwm == <<"7", "7">>

\* /sys/class/hwmon as read_dir gives it: the call fails, or it lists entries,
\* each with a path and a name file
HwmonEntry(p, n) == [path |-> p, name |-> n]
ReadDirFails == [ok |-> FALSE, entries |-> <<>>]
ReadDir(es) == [ok |-> TRUE, entries |-> es]

HwmonDirs ==
    { ReadDirFails,
      ReadDir(<<HwmonEntry("hwmon0", Content(<<"amdgpu", "\n">>)),
                HwmonEntry("hwmon1", Content(<<"aynec", "\n">>))>>),
      ReadDir(<<HwmonEntry("hwmon0", Unreadable),
                HwmonEntry("hwmon1", Content(<<"aynec", "\n">>))>>),
      ReadDir(<<HwmonEntry("hwmon0", Unreadable),
                HwmonEntry("hwmon1", Content(<<"amdgpu", "\n">>))>>) }

\* main.rs 156-186 / gui.rs 199-229: the first entry whose name file reads and
\* trims to "aynec"
RECURSIVE ScanHwmon(_, _)
ScanHwmon(entries, i) ==
    IF i > Len(entries) THEN None
    ELSE LET e == entries[i]
         IN IF e.name.readable /\ Trim(e.name.content) = <<"aynec">>
            THEN Some(<<e.path>>)
            ELSE ScanHwmon(entries, i + 1)

find_aynec_hwmon(dir) == IF dir.ok THEN ScanHwmon(dir.entries, 1) ELSE None

\* one toggled signal: the button it is emitted on and btn.is_active()
Toggle(b, a) == [btn |-> b, active |-> a]

\* Before build_ui has run.
InitialProfileQuiet == QUIET_CURVE

\* main.rs 515: Arc::new(Mutex::new(None))
InitialProfile == NoProfile

FanInit(v) ==
    /\ variant = v
    /\ fan_base = None
    /\ profileState = InitialProfile
    /\ lock = "free"
    /\ button = "none"
    /\ slider = 0
    /\ uiPc = "start"
    /\ uiQueue = <<>>
    /\ uiCur = "none"
    /\ uiWrites = <<>>
    /\ loopPc = "off"
    /\ loopProf = NoProfile
    /\ loopTemp = 0
    /\ loopPwm = 0
    /\ loopReads = <<>>
    /\ tickWrites = <<>>
    /\ sysfs = [pwm1_enable |-> BootEnable, pwm1 |-> BootPwm]
    /\ inflight = EmptyBag

(***************************************************************************)
(* build_ui, fan section: main.rs 512-605 / gui.rs 616-709.  With a base   *)
(* the loop thread is spawned and the handlers are connected; without one  *)
(* the four buttons and the slider are made insensitive.                   *)
(***************************************************************************)
\* main.rs 513: if let Some(base) = fan_base.clone()
FanAvailableAlways(base) == TRUE
FanAvailable(base) == base.some

BuildUi ==
    /\ uiPc = "start"
    /\ \E dir \in HwmonDirs :
          LET base == find_aynec_hwmon(dir)
          IN /\ fan_base' = base
             /\ loopPc' = IF FanAvailable(base) THEN "sleep" ELSE "off"
    /\ uiPc' = "idle"
    /\ UNCHANGED <<variant, profileState, lock, button, slider, uiQueue, uiCur, uiWrites>>
    /\ UNCHANGED <<loopProf, loopTemp, loopPwm, loopReads, tickWrites, sysfs, inflight>>
    /\ UNCHANGED <<brokerVars, evalVars, halVars>>

(***************************************************************************)
(* write_to_sysfs: main.rs 188-206 writes the file itself and logs a       *)
(* failure; gui.rs 231-233 hands the write to daemon_send (939-961), whose *)
(* spawned task the broker serves at some later time.                      *)
(***************************************************************************)
WriteReq(path, val) == [path |-> path, value |-> val]

write_to_sysfs(path, val) ==
    IF variant = "direct"
    THEN /\ \/ sysfs' = [sysfs EXCEPT ![path] = val]
            \/ sysfs' = sysfs
         /\ UNCHANGED inflight
    ELSE /\ BagCardinality(inflight) < MaxInflight
         /\ inflight' = inflight (+) SetToBag({WriteReq(path, val)})
         /\ UNCHANGED sysfs

\* A request sent by daemon_send is performed by the broker, or is lost
\* (no connection, or the broker's write fails).
DaemonPerform ==
    /\ \E r \in BagToSet(inflight) :
          /\ inflight' = inflight (-) SetToBag({r})
          /\ \/ sysfs' = [sysfs EXCEPT ![r.path] = r.value]
             \/ sysfs' = sysfs
    /\ UNCHANGED <<variant, fan_base, profileState, lock, uiLocals, loopLocals>>
    /\ UNCHANGED <<brokerVars, evalVars, halVars>>

(***************************************************************************)
(* The fan loop thread: main.rs 519-530 / gui.rs 623-634.                  *)
(***************************************************************************)
\* main.rs 520: the value the loop copies out of the mutex
LoopReadStateStale(st) == IF loopProf # NoProfile THEN loopProf ELSE st
LoopReadState(st) == st

\* main.rs 520: what the copy leaves in the mutex
LoopStateAfterReadTake(st) == NoProfile
LoopStateAfterRead(st) == st

\* main.rs 520: the guard is a temporary of the let statement and is dropped
\* where the statement ends
LoopGuardKept(holder) == holder
LoopGuardDrop(holder) == "free"

\* main.rs 520: state.lock(); a tick starts
LoopTick ==
    /\ loopPc = "sleep"
    /\ lock = "free"
    /\ lock' = "loop"
    /\ loopPc' = "locked"
    /\ tickWrites' = <<>>
    /\ loopReads' = <<>>
    /\ UNCHANGED <<variant, fan_base, profileState, uiLocals, loopProf, loopTemp, loopPwm>>
    /\ UNCHANGED <<sysfs, inflight>>
    /\ UNCHANGED <<brokerVars, evalVars, halVars>>

\* main.rs 520-521, 529: prof is copied and the guard dropped; with None the
\* thread goes to sleep
LoopReadProf ==
    /\ loopPc = "locked"
    /\ LET prof == LoopReadState(profileState)
       IN /\ loopProf' = prof
          /\ loopPc' = IF prof = NoProfile THEN "sleep" ELSE "temp"
    /\ profileState' = LoopStateAfterRead(profileState)
    /\ lock' = LoopGuardDrop(lock)
    /\ UNCHANGED <<variant, fan_base, uiLocals, loopTemp, loopPwm, loopReads, tickWrites>>
    /\ UNCHANGED <<sysfs, inflight>>
    /\ UNCHANGED <<brokerVars, evalVars, halVars>>

\* main.rs 522-524: read_temp, eval_curve and the duty
LoopReadTemp ==
    /\ loopPc = "temp"
    /\ \E sensors \in SensorFiles :
          LET t == read_temp(sensors)
          IN /\ loopReads' = t.reads
             /\ IF t.some
                THEN /\ loopTemp' = t.milli
                     /\ loopPwm' = PctToPwm(eval_curve(loopProf, t.milli))
                     /\ loopPc' = "enable"
                ELSE /\ loopPc' = "sleep"
                     /\ UNCHANGED <<loopTemp, loopPwm>>
    /\ UNCHANGED <<variant, fan_base, profileState, lock, uiLocals, loopProf, tickWrites>>
    /\ UNCHANGED <<sysfs, inflight>>
    /\ UNCHANGED <<brokerVars, evalVars, halVars>>

\* main.rs 525
LoopWriteEnable ==
    /\ loopPc = "enable"
    /\ write_to_sysfs("pwm1_enable", <<"1">>)
    /\ tickWrites' = Append(tickWrites, WriteReq("pwm1_enable", <<"1">>))
    /\ loopPc' = "pwm"
    /\ loopReads' = <<>>
    /\ UNCHANGED <<variant, fan_base, profileState, lock, uiLocals, loopProf, loopTemp, loopPwm>>
    /\ UNCHANGED <<brokerVars, evalVars, halVars>>

\* main.rs 526, 529
LoopWritePwm ==
    /\ loopPc = "pwm"
    /\ write_to_sysfs("pwm1", U8ToString(loopPwm))
    /\ tickWrites' = Append(tickWrites, WriteReq("pwm1", U8ToString(loopPwm)))
    /\ loopPc' = "sleep"
    /\ loopTemp' = 0
    /\ loopPwm' = 0
    /\ UNCHANGED <<variant, fan_base, profileState, lock, uiLocals, loopProf, loopReads>>
    /\ UNCHANGED <<brokerVars, evalVars, halVars>>

(***************************************************************************)
(* The mode handlers, run one at a time by the GTK main thread:            *)
(* main.rs 532-597 / gui.rs 636-701.                                       *)
(***************************************************************************)
\* what each handler stores in profile_state (main.rs 539, 551, 563, 576)
ProfileOfAltered(b) ==
    CASE b = "quiet" -> [QUIET_CURVE EXCEPT ![5] = FanPoint(80, 90)]
      [] b = "aggressive" -> AGGRESSIVE_CURVE
      [] OTHER -> NoProfile
ProfileOf(b) ==
    CASE b = "quiet" -> QUIET_CURVE
      [] b = "aggressive" -> AGGRESSIVE_CURVE
      [] OTHER -> NoProfile

\* what each handler writes to pwm1_enable (main.rs 540, 552, 564, 577)
EnableOfAlwaysOn(b) == <<"1">>
EnableOf(b) == IF b = "auto" THEN <<"0">> ELSE <<"1">>

\* main.rs 537, 549, 561, 574: if btn.is_active()
HandlerActsAlways(active) == TRUE
HandlerActs(active) == active

\* where the main thread goes when a handler returns
AfterHandler(queue) == IF queue = <<>> THEN "idle" ELSE "emit"

\* what the emission of the first signal of queue q does to the main thread:
\* the handler is entered, or it returns at its is_active test
Emit(q) ==
    LET h == Head(q)
    IN /\ uiQueue' = Tail(q)
       /\ IF HandlerActs(h.active)
          THEN /\ uiCur' = h.btn
               /\ uiWrites' = <<>>
               /\ uiPc' = "lock"
          ELSE /\ uiPc' = AfterHandler(Tail(q))
               /\ UNCHANGED <<uiCur, uiWrites>>

\* The user clicks another button of the group (main.rs 491-497): the active
\* button is deactivated and the clicked one activated, and toggled is
\* emitted on each of them, first on the deactivated one.
Select(b) ==
    /\ uiPc = "idle"
    /\ FanAvailable(fan_base)
    /\ b # button
    /\ button' = b
    /\ Emit((IF button = "none" THEN <<>> ELSE <<Toggle(button, FALSE)>>)
               \o <<Toggle(b, TRUE)>>)
    /\ UNCHANGED <<variant, fan_base, profileState, lock, slider>>
    /\ UNCHANGED <<loopLocals, sysfs, inflight>>
    /\ UNCHANGED <<brokerVars, evalVars, halVars>>

\* main.rs 536-537, 548-549, 560-561, 573-574: the next signal is emitted
Toggled ==
    /\ uiPc = "emit"
    /\ Emit(uiQueue)
    /\ UNCHANGED <<variant, fan_base, profileState, lock, button, slider>>
    /\ UNCHANGED <<loopLocals, sysfs, inflight>>
    /\ UNCHANGED <<brokerVars, evalVars, halVars>>

\* main.rs 539, 551, 563, 576: the guard is a temporary of the assignment
UiGuardDrop(holder) == "free"

\* main.rs 539, 551, 563, 576: state.lock()
UiLock ==
    /\ uiPc = "lock"
    /\ lock = "free"
    /\ lock' = "ui"
    /\ uiPc' = "store"
    /\ UNCHANGED <<variant, fan_base, profileState, button, slider, uiQueue, uiCur, uiWrites>>
    /\ UNCHANGED <<loopLocals, sysfs, inflight>>
    /\ UNCHANGED <<brokerVars, evalVars, halVars>>

\* main.rs 539, 551, 563, 576: the value is replaced and the guard dropped
UiStore ==
    /\ uiPc = "store"
    /\ profileState' = ProfileOf(uiCur)
    /\ lock' = UiGuardDrop(lock)
    /\ uiPc' = "enable"
    /\ UNCHANGED <<variant, fan_base, button, slider, uiQueue, uiCur, uiWrites>>
    /\ UNCHANGED <<loopLocals, sysfs, inflight>>
    /\ UNCHANGED <<brokerVars, evalVars, halVars>>

\* main.rs 540, 552, 564, 577
UiWriteEnable ==
    /\ uiPc = "enable"
    /\ write_to_sysfs("pwm1_enable", EnableOf(uiCur))
    /\ uiWrites' = Append(uiWrites, WriteReq("pwm1_enable", EnableOf(uiCur)))
    /\ uiPc' = IF uiCur = "manual" THEN "pwm" ELSE AfterHandler(uiQueue)
    /\ UNCHANGED <<variant, fan_base, profileState, lock, button, slider, uiQueue, uiCur>>
    /\ UNCHANGED loopLocals
    /\ UNCHANGED <<brokerVars, evalVars, halVars>>

\* main.rs 578-580
UiWritePwm ==
    /\ uiPc = "pwm"
    /\ write_to_sysfs("pwm1", U8ToString(PctToPwm(Pct(slider, 1))))
    /\ uiWrites' = Append(uiWrites, WriteReq("pwm1", U8ToString(PctToPwm(Pct(slider, 1)))))
    /\ uiPc' = AfterHandler(uiQueue)
    /\ UNCHANGED <<variant, fan_base, profileState, lock, button, slider, uiQueue, uiCur>>
    /\ UNCHANGED loopLocals
    /\ UNCHANGED <<brokerVars, evalVars, halVars>>

\* main.rs 587-593: the slider moves; the handler returns unless Manual is active
SliderGuardAlways(active) == "slider_enable"

\* main.rs 588-590: if !manual_btn.is_active() { return; }
SliderGuard(active) == IF active THEN "slider_enable" ELSE "idle"

SliderChange(v) ==
    /\ uiPc = "idle"
    /\ FanAvailable(fan_base)
    /\ v # slider
    /\ slider' = v
    /\ uiCur' = "slider"
    /\ uiWrites' = <<>>
    /\ uiPc' = SliderGuard(button = "manual")
    /\ UNCHANGED <<variant, fan_base, profileState, lock, button, uiQueue>>
    /\ UNCHANGED <<loopLocals, sysfs, inflight>>
    /\ UNCHANGED <<brokerVars, evalVars, halVars>>

\* main.rs 594
SliderWriteEnable ==
    /\ uiPc = "slider_enable"
    /\ write_to_sysfs("pwm1_enable", <<"1">>)
    /\ uiWrites' = Append(uiWrites, WriteReq("pwm1_enable", <<"1">>))
    /\ uiPc' = "slider_pwm"
    /\ UNCHANGED <<variant, fan_base, profileState, lock, button, slider, uiQueue, uiCur>>
    /\ UNCHANGED loopLocals
    /\ UNCHANGED <<brokerVars, evalVars, halVars>>

\* main.rs 595
SliderWritePwm ==
    /\ uiPc = "slider_pwm"
    /\ write_to_sysfs("pwm1", U8ToString(PctToPwm(Pct(slider, 1))))
    /\ uiWrites' = Append(uiWrites, WriteReq("pwm1", U8ToString(PctToPwm(Pct(slider, 1)))))
    /\ uiPc' = "idle"
    /\ UNCHANGED <<variant, fan_base, profileState, lock, button, slider, uiQueue, uiCur>>
    /\ UNCHANGED loopLocals
    /\ UNCHANGED <<brokerVars, evalVars, halVars>>

(***************************************************************************)
(* eval_curve on its own (main.rs 265-278 / gui.rs 292-305): the curves    *)
(* and temperatures it is called with.  The temperatures are the whole     *)
(* degrees and the quarters of ten degrees, which include every point and  *)
(* every midpoint of the curves; at those, and wherever the quotient       *)
(* (temp - t0) / (t1 - t0) is a dyadic fraction, the f32 arithmetic of the *)
(* code is exact and equals the fractions computed here.                   *)
(***************************************************************************)
EvalCurves ==
    { QUIET_CURVE,
      AGGRESSIVE_CURVE,
      <<FanPoint(20, 10), FanPoint(24, 90), FanPoint(40, 30), FanPoint(48, 30),
        FanPoint(80, 100)>>,
      <<FanPoint(30, 100), FanPoint(40, 80), FanPoint(50, 60), FanPoint(60, 20),
        FanPoint(70, 0)>>,
      <<FanPoint(20, 10), FanPoint(24, 10), FanPoint(40, 30), FanPoint(48, 30),
        FanPoint(80, 100)>> }

EvalTemps == { 1000 * k : k \in 10..90 } \cup { 2500 * k : k \in 4..36 }

NotCalled == [returned |-> FALSE, pct |-> Pct(0, 1)]
Returned(p) == [returned |-> TRUE, pct |-> p]

\* the positions of the slider the duty computations are called with
EvalSliders == {0, 1, 50, 99, 100}

\* the three places a duty is computed, and "no duty yet"
DutySites == {"loop", "toggled", "changed"}
NoDuty == 0 - 1

EvalIdle ==
    /\ evCurve = QUIET_CURVE
    /\ evTemp = 0
    /\ evOut = NotCalled
    /\ evSlider = 0
    /\ evDuty = [s \in DutySites |-> NoDuty]

EvalInit ==
    /\ evCurve \in EvalCurves
    /\ evTemp \in EvalTemps
    /\ evOut = NotCalled
    /\ evSlider \in EvalSliders
    /\ evDuty = [s \in DutySites |-> NoDuty]

EvalCall ==
    /\ ~evOut.returned
    /\ evOut' = Returned(eval_curve(evCurve, evTemp))
    /\ UNCHANGED <<evCurve, evTemp, evSlider, evDuty>>
    /\ UNCHANGED <<brokerVars, fanVars, halVars>>

\* main.rs 524 / gui.rs 628: let pwm = ((pct / 100.0) * 255.0).round() as u8
\* with the pct eval_curve returned
DutyLoop ==
    /\ evOut.returned
    /\ evDuty["loop"] = NoDuty
    /\ evDuty' = [evDuty EXCEPT !["loop"] = PctToPwm(evOut.pct)]
    /\ UNCHANGED <<evCurve, evTemp, evOut, evSlider>>
    /\ UNCHANGED <<brokerVars, fanVars, halVars>>

\* main.rs 578-579 / gui.rs 682-683: let pct = ms.value() / 100.0;
\* let pwm = (pct * 255.0).round() as u8
DutyToggled ==
    /\ evDuty["toggled"] = NoDuty
    /\ evDuty' = [evDuty EXCEPT !["toggled"] = PctToPwm(Pct(evSlider, 1))]
    /\ UNCHANGED <<evCurve, evTemp, evOut, evSlider>>
    /\ UNCHANGED <<brokerVars, fanVars, halVars>>

\* main.rs 591-592 / gui.rs 695-696: let pct = s.value();
\* let pwm = ((pct / 100.0) * 255.0).round() as u8
DutyChanged ==
    /\ evDuty["changed"] = NoDuty
    /\ evDuty' = [evDuty EXCEPT !["changed"] = PctToPwm(Pct(evSlider, 1))]
    /\ UNCHANGED <<evCurve, evTemp, evOut, evSlider>>
    /\ UNCHANGED <<brokerVars, fanVars, halVars>>

(***************************************************************************)
(* The lazily resolved hardware handles of the UI: PWM_BASE (main.rs 17,   *)
(* 244-251 / gui.rs 24, 271-278) and the backlight (main.rs 14-15, 71-122  *)
(* / gui.rs 21-22, 116-165).  The three functions are called on the GTK    *)
(* main thread only; here they are called on their own, in any order, each *)
(* call finding the directories in one of the conditions below.            *)
(***************************************************************************)
\* OnceLock<T>: empty, or holding the value it was set to
OnceEmpty(dflt) == [set |-> FALSE, value |-> dflt]
OnceFull(v) == [set |-> TRUE, value |-> v]

\* OnceLock::get_or_init: an empty cell takes the value, a full one keeps its own
get_or_initSomeOnly(cell, v) ==
    IF cell.set THEN cell ELSE IF v.some THEN OnceFull(v) ELSE cell
get_or_init(cell, v) == IF cell.set THEN cell ELSE OnceFull(v)

\* OnceLock::set: the same on the cell; the Err of a full cell is dropped
\* (let _ =)
OnceSet(cell, v) == IF cell.set THEN cell ELSE OnceFull(v)

\* str::parse::<u32> of a decimal integer text
ParseU32(t) ==
    IF t # <<>> /\ \A i \in 1..Len(t) : IsDigit(t[i])
    THEN [ok |-> TRUE, v |-> DigitsValue(t)]
    ELSE [ok |-> FALSE, v |-> 0]

\* an entry of /sys/class/backlight: Some(Ok(e)) with its max_brightness
\* file, or Some(Err(_))
BacklightEntry(p, f) == [ok |-> TRUE, path |-> p, max_brightness |-> f]
BacklightEntryErr == [ok |-> FALSE, path |-> "", max_brightness |-> Unreadable]

BacklightDirs ==
    { ReadDirFails,
      ReadDir(<<>>),
      ReadDir(<<BacklightEntryErr>>),
      ReadDir(<<BacklightEntry("amdgpu_bl0", Unreadable)>>),
      ReadDir(<<BacklightEntry("amdgpu_bl0", Content(<<"m", "a", "x", "\n">>))>>),
      ReadDir(<<BacklightEntry("amdgpu_bl0", Content(<<"2", "5", "5", "\n">>))>>),
      ReadDir(<<BacklightEntry("amdgpu_bl1", Content(<<"9", "6", "\n">>)),
                BacklightEntry("amdgpu_bl0", Content(<<"2", "5", "5", "\n">>))>>) }

\* the values write_brightness is called with
BrightnessValues == {0, 48, 255}

\* main.rs 75-105 / gui.rs 120-150: the discovery of init_backlight, what it
\* would store
NoBacklight == [found |-> FALSE, max |-> 0, path |-> <<>>]
DiscoverBacklight(dir) ==
    IF ~dir.ok \/ dir.entries = <<>> THEN NoBacklight
    ELSE LET e == dir.entries[1]
             r == ParseU32(Trim(e.max_brightness.content))
         IN IF e.ok /\ e.max_brightness.readable /\ r.ok
            THEN [found |-> TRUE, max |-> r.v, path |-> <<e.path, "/", "brightness">>]
            ELSE NoBacklight

\* main.rs 72-74 / gui.rs 117-119: the early return of init_backlight
BacklightResolved(max, path) == max.set /\ path.set

\* main.rs 71-106 / gui.rs 116-151
init_backlight(max, path, n, dir) ==
    IF BacklightResolved(max, path)
    THEN [max |-> max, path |-> path, scans |-> n]
    ELSE LET d == DiscoverBacklight(dir)
         IN [max |-> IF d.found THEN OnceSet(max, d.max) ELSE max,
             path |-> IF d.found THEN OnceSet(path, d.path) ELSE path,
             scans |-> n + 1]

Functions == {"pwm_base", "read_max_brightness", "write_brightness"}
NoCall == [fn |-> "none", ret |-> <<>>]
Call(f, r) == [fn |-> f, ret |-> r]
TotalCalls == calls["pwm_base"] + calls["read_max_brightness"] + calls["write_brightness"]

\* what write_brightness did: the write it issued (main.rs 116 fs::write,
\* gui.rs 161 daemon_send), or the message that the path is unavailable
BrightnessWrite(path, value) == <<"write", path, U32ToString(value)>>
BrightnessUnavailable == <<"Backlight brightness path unavailable">>

CacheInit ==
    /\ PWM_BASE = OnceEmpty(None)
    /\ MAX_BRIGHTNESS = OnceEmpty(0)
    /\ BRIGHTNESS_PATH = OnceEmpty(<<>>)
    /\ scans = [hwmon |-> 0, backlight |-> 0]
    /\ calls = [f \in Functions |-> 0]
    /\ lastCall = NoCall

\* main.rs 244-251 / gui.rs 271-278
CallPwmBase ==
    /\ TotalCalls < MaxCalls
    /\ \E dir \in HwmonDirs :
          /\ PWM_BASE' = get_or_init(PWM_BASE, find_aynec_hwmon(dir))
          /\ scans' = [scans EXCEPT !.hwmon = IF PWM_BASE.set THEN @ ELSE @ + 1]
    /\ lastCall' = Call("pwm_base", <<PWM_BASE'.value>>)
    /\ calls' = [calls EXCEPT !["pwm_base"] = @ + 1]
    /\ UNCHANGED <<MAX_BRIGHTNESS, BRIGHTNESS_PATH>>
    /\ UNCHANGED <<brokerVars, fanVars, evalVars, sendVars, auxVars>>

\* main.rs 108-111 / gui.rs 153-156
CallReadMaxBrightness ==
    /\ TotalCalls < MaxCalls
    /\ \E dir \in BacklightDirs :
          LET st == init_backlight(MAX_BRIGHTNESS, BRIGHTNESS_PATH, scans.backlight, dir)
          IN /\ MAX_BRIGHTNESS' = st.max
             /\ BRIGHTNESS_PATH' = st.path
             /\ scans' = [scans EXCEPT !.backlight = st.scans]
             /\ lastCall' = Call("read_max_brightness",
                                 <<IF st.max.set THEN st.max.value ELSE 100>>)
    /\ calls' = [calls EXCEPT !["read_max_brightness"] = @ + 1]
    /\ UNCHANGED PWM_BASE
    /\ UNCHANGED <<brokerVars, fanVars, evalVars, sendVars, auxVars>>

\* main.rs 113-122 / gui.rs 158-165
CallWriteBrightness(value) ==
    /\ TotalCalls < MaxCalls
    /\ \E dir \in BacklightDirs :
          LET st == init_backlight(MAX_BRIGHTNESS, BRIGHTNESS_PATH, scans.backlight, dir)
          IN /\ MAX_BRIGHTNESS' = st.max
             /\ BRIGHTNESS_PATH' = st.path
             /\ scans' = [scans EXCEPT !.backlight = st.scans]
             /\ lastCall' = Call("write_brightness",
                                 IF st.path.set
                                 THEN BrightnessWrite(st.path.value, value)
                                 ELSE BrightnessUnavailable)
    /\ calls' = [calls EXCEPT !["write_brightness"] = @ + 1]
    /\ UNCHANGED PWM_BASE
    /\ UNCHANGED <<brokerVars, fanVars, evalVars, sendVars, auxVars>>

(***************************************************************************)
(* daemon_send (gui.rs 939-961): every call spawns a task on the tokio     *)
(* runtime; the task connects to the broker's socket, writes the request   *)
(* line and reads one line of response, which it drops.  The broker's side *)
(* of the connection is the environment here: a connect, a write or a read *)
(* succeeds or fails.                                                      *)
(***************************************************************************)
\* gui.rs 943: for _ in 0..3
ConnectAttempts == 3

SendIds == 1..MaxSends

\* the requests daemon_send is called with: some of write_to_sysfs
SendRequests ==
    { WriteReq("pwm1_enable", <<"1">>), WriteReq("pwm1", U8ToString(128)),
      WriteReq("pwm1", U8ToString(255)) }

\* a task: where it is, its request, the connects it made, the lines
\* "connect failed: .." it logged and the times it wrote its request line to
\* a connection
NoTask ==
    [pc |-> "unspawned", req |-> WriteReq("", <<>>), attempts |-> 0, logged |-> 0,
     delivered |-> 0]

SendInit ==
    /\ sends = [i \in SendIds |-> NoTask]
    /\ applied = <<>>

\* gui.rs 940-942: rt.spawn(async move { let msg = ...; the calls are numbered
\* in the order they are made
DaemonSend(i) ==
    /\ sends[i].pc = "unspawned"
    /\ \A j \in SendIds : j < i => sends[j].pc # "unspawned"
    /\ \E r \in SendRequests :
          sends' = [sends EXCEPT ![i].pc = "connect", ![i].req = r]
    /\ UNCHANGED applied
    /\ UNCHANGED <<brokerVars, fanVars, evalVars, cacheVars, auxVars>>

\* gui.rs 956: after a failed connect the task sleeps and the for loop goes
\* on to its next round, if it has one
AfterSleepAgain(attempts) == "connect"
AfterSleep(attempts) == IF attempts < ConnectAttempts THEN "connect" ELSE "done"

\* gui.rs 944-945, 954-955: UnixStream::connect(..).await and the match
SendConnect(i) ==
    /\ sends[i].pc = "connect"
    /\ \/ sends' = [sends EXCEPT ![i].pc = "write", ![i].attempts = @ + 1]
       \/ sends' = [sends EXCEPT
              ![i].pc = "sleep", ![i].attempts = @ + 1, ![i].logged = @ + 1]
    /\ UNCHANGED applied
    /\ UNCHANGED <<brokerVars, fanVars, evalVars, cacheVars, auxVars>>

\* gui.rs 956: tokio::time::sleep(500 ms).await
SendSleep(i) ==
    /\ sends[i].pc = "sleep"
    /\ sends' = [sends EXCEPT ![i].pc = AfterSleep(sends[i].attempts)]
    /\ UNCHANGED applied
    /\ UNCHANGED <<brokerVars, fanVars, evalVars, cacheVars, auxVars>>

\* gui.rs 947, 952: stream.write_all(msg).await; on Err the task returns
SendWrite(i) ==
    /\ sends[i].pc = "write"
    /\ \/ sends' = [sends EXCEPT ![i].pc = "read", ![i].delivered = @ + 1]
       \/ sends' = [sends EXCEPT ![i].pc = "done"]
    /\ UNCHANGED applied
    /\ UNCHANGED <<brokerVars, fanVars, evalVars, cacheVars, auxVars>>

\* gui.rs 948-952: let _ = reader.read_line(&mut resp).await; return.  The
\* line read is the broker's Response, or the connection ended without one.
SendRead(i) ==
    /\ sends[i].pc = "read"
    /\ sends' = [sends EXCEPT ![i].pc = "done"]
    /\ UNCHANGED applied
    /\ UNCHANGED <<brokerVars, fanVars, evalVars, cacheVars, auxVars>>

\* daemon main.rs 31, 53, 63: the broker's handler of the connection, a task
\* of its own, performs the request it has read; it answers afterwards
BrokerPerform(i) ==
    /\ sends[i].pc = "read"
    /\ \A k \in 1..Len(applied) : applied[k] # i
    /\ applied' = Append(applied, i)
    /\ UNCHANGED sends
    /\ UNCHANGED <<brokerVars, fanVars, evalVars, cacheVars, auxVars>>

(***************************************************************************)
(* The RGB lighting section of build_ui (gui.rs 714-915): the mode buttons, *)
(* the hue strip, the brightness slider and the apply scheduler.  All of   *)
(* it runs on the GTK main thread: a handler and a timer callback each run *)
(* to their end before the next one starts.                                *)
(***************************************************************************)
RgbModes == {"off", "breathe", "manual"}

\* gui.rs 748: the range of the brightness Scale, some of its values
RgbBrightnessValues == {0, 128, 255}

\* gui.rs 836-837: the width of the hue strip and the x of a drag, in pixels
HueWidth == 4
DragXs == {0 - 1, 0, 1, 3, 4, 6}

\* f64::clamp
Clamp(x, lo, hi) == IF x < lo THEN lo ELSE IF x > hi THEN hi ELSE x

\* gui.rs 837-838: clamped / width * 360.0, in degrees
HueOf(x) == (Clamp(x, 0, HueWidth) * 360) \div HueWidth

Abs(x) == IF x < 0 THEN 0 - x ELSE x

\* gui.rs 252-269: hsv_to_rgb(h, 1.0, 1.0) for h in whole degrees: c = 1,
\* m = 0, hh = (h / 60) % 6, x = 1 - |hh % 2 - 1|, the sector is hh as i32
hsv_to_rgb(h) ==
    LET hd == h % 360
        c == AsU8(Round(255, 1))
        x == AsU8(Round((60 - Abs((hd % 120) - 60)) * 255, 60))
        sector == hd \div 60
    IN CASE sector = 0 -> <<c, x, 0>>
         [] sector = 1 -> <<x, c, 0>>
         [] sector = 2 -> <<0, c, x>>
         [] sector = 3 -> <<0, x, c>>
         [] sector = 4 -> <<x, 0, c>>
         [] OTHER -> <<c, 0, x>>

\* gui.rs 237-250: the requests rgb_set_mode, rgb_set_brightness and
\* rgb_set_intensity hand to write_to_sysfs
rgb_set_mode(m) == WriteReq("led_mode", U8ToString(m))
rgb_set_brightness(v) == WriteReq("brightness", U8ToString(v))
rgb_set_intensity(r, g, b) ==
    WriteReq("multi_intensity",
             U8ToString(r) \o <<" ">> \o U8ToString(g) \o <<" ">> \o U8ToString(b))

\* gui.rs 764-776: apply_settings reads the hue cell and the slider when it
\* runs, and issues the brightness and then the intensity
apply_settings(h, b) ==
    LET rgb == hsv_to_rgb(h)
    IN <<rgb_set_brightness(AsU8(b)), rgb_set_intensity(rgb[1], rgb[2], rgb[3])>>

\* Option<SourceId>
NoSource == [some |-> FALSE, id |-> 0]
SomeSource(i) == [some |-> TRUE, id |-> i]

RgbInit ==
    /\ rgbMode = "off"
    /\ hue = 0
    /\ brightness = 255
    /\ pending = NoSource
    /\ timers = {}
    /\ nextSource = 1
    /\ rgbWrites = <<>>
    /\ lastApply = <<>>
    /\ unapplied = FALSE

ScheduleGuardAlways(p) == TRUE

\* gui.rs 783: if pending_ref.borrow().is_none()
ScheduleGuard(p) == ~p.some

\* gui.rs 779-794: schedule_apply registers a 16 ms timer and stores its id,
\* unless one is pending
schedule_apply ==
    IF ScheduleGuard(pending)
    THEN /\ nextSource <= MaxTimers
         /\ timers' = timers \cup {nextSource}
         /\ pending' = SomeSource(nextSource)
         /\ nextSource' = nextSource + 1
    ELSE UNCHANGED <<timers, pending, nextSource>>

\* gui.rs 796-799: the brightness slider moved
BrightnessChanged(v) ==
    /\ rgbMode = "manual"
    /\ v # brightness
    /\ brightness' = v
    /\ schedule_apply
    /\ rgbWrites' = <<>>
    /\ unapplied' = TRUE
    /\ UNCHANGED <<rgbMode, hue, lastApply>>
    /\ UNCHANGED <<brokerVars, fanVars, evalVars, cacheVars, sendVars, startVars>>

\* gui.rs 831-857: update_hue, from drag_begin or drag_update on the hue strip
HueDrag(x) ==
    /\ rgbMode = "manual"
    /\ hue' = HueOf(x)
    /\ schedule_apply
    /\ rgbWrites' = <<>>
    /\ unapplied' = TRUE
    /\ UNCHANGED <<rgbMode, brightness, lastApply>>
    /\ UNCHANGED <<brokerVars, fanVars, evalVars, cacheVars, sendVars, startVars>>

\* gui.rs 786-790: the timer fires: apply(), pending.take(), ControlFlow::Break
TimerFire(i) ==
    /\ i \in timers
    /\ rgbWrites' = apply_settings(hue, brightness)
    /\ lastApply' = apply_settings(hue, brightness)
    /\ unapplied' = FALSE
    /\ pending' = NoSource
    /\ timers' = timers \ {i}
    /\ UNCHANGED <<rgbMode, hue, brightness, nextSource>>
    /\ UNCHANGED <<brokerVars, fanVars, evalVars, cacheVars, sendVars, startVars>>

\* gui.rs 886-915: the toggled handlers of Off, Breathe and Manual; the
\* handler of the button that became inactive does nothing
RgbSelect(m) ==
    /\ m # rgbMode
    /\ rgbMode' = m
    /\ CASE m = "off" ->
              /\ rgbWrites' = <<rgb_set_mode(1), rgb_set_brightness(0),
                                rgb_set_intensity(0, 0, 0)>>
              /\ UNCHANGED <<lastApply, unapplied>>
         [] m = "breathe" ->
              /\ rgbWrites' = <<rgb_set_mode(0)>>
              /\ UNCHANGED <<lastApply, unapplied>>
         [] OTHER ->
              /\ rgbWrites' = <<rgb_set_mode(1)>> \o apply_settings(hue, brightness)
              /\ lastApply' = apply_settings(hue, brightness)
              /\ unapplied' = FALSE
    /\ UNCHANGED <<hue, brightness, pending, timers, nextSource>>
    /\ UNCHANGED <<brokerVars, fanVars, evalVars, cacheVars, sendVars, startVars>>

RgbSpecInit ==
    /\ BrokerInit /\ FanInit("daemon") /\ EvalIdle /\ CacheInit /\ SendInit
    /\ sock = SockReady
    /\ RgbInit

RgbNext ==
    \/ \E m \in RgbModes : RgbSelect(m)
    \/ \E v \in RgbBrightnessValues : BrightnessChanged(v)
    \/ \E x \in DragXs : HueDrag(x)
    \/ \E i \in 1..MaxTimers : TimerFire(i)

\* the GTK main loop runs a timer's callback once its 16 ms have passed
RgbSpec ==
    /\ RgbSpecInit
    /\ [][RgbNext]_vars
    /\ \A i \in 1..MaxTimers : WF_vars(TimerFire(i))

\* the state of the parts a specification leaves alone
AuxIdle == sock = SockReady /\ RgbInit

(***************************************************************************)
(* The specifications: the broker process, the UI process, and eval_curve  *)
(* with the duty computations.                                             *)
(***************************************************************************)
Init == BrokerInit /\ FanInit("direct") /\ EvalIdle /\ CacheInit /\ SendInit
    /\ AuxIdle

Next ==
    \/ AcceptOk
    \/ AcceptErr
    \/ \E c \in ConnIds : PeerSend(c)
    \/ \E c \in ConnIds : HandleRead(c)
    \/ \E c \in ConnIds : HandleFsOpen(c)
    \/ \E c \in ConnIds : HandleFsWrite(c)
    \/ \E c \in ConnIds : HandleSpawn(c)
    \/ \E c \in ConnIds : HandleWait(c)
    \/ \E c \in ConnIds : HandleRespond(c)

Spec == Init /\ [][Next]_vars

\* The tokio runtime polls every task that can make progress: each handler
\* is scheduled weakly fairly.
LiveSpec == Spec /\ \A c \in ConnIds : WF_vars(HandlerStep(c))

FanSpecInit == BrokerInit /\ (\E v \in Variants : FanInit(v)) /\ EvalIdle /\ CacheInit /\ SendInit
    /\ AuxIdle

FanNext ==
    \/ BuildUi
    \/ LoopTick
    \/ LoopReadProf
    \/ LoopReadTemp
    \/ LoopWriteEnable
    \/ LoopWritePwm
    \/ \E b \in Buttons : Select(b)
    \/ Toggled
    \/ UiLock
    \/ UiStore
    \/ UiWriteEnable
    \/ UiWritePwm
    \/ \E v \in SliderValues : SliderChange(v)
    \/ SliderWriteEnable
    \/ SliderWritePwm
    \/ DaemonPerform

FanSpec == FanSpecInit /\ [][FanNext]_vars

EvalSpecInit == BrokerInit /\ FanInit("direct") /\ EvalInit /\ CacheInit /\ SendInit
    /\ AuxIdle

EvalNext ==
    \/ EvalCall
    \/ DutyLoop
    \/ DutyToggled
    \/ DutyChanged

EvalSpec == EvalSpecInit /\ [][EvalNext]_vars

CacheSpecInit == BrokerInit /\ FanInit("direct") /\ EvalIdle /\ CacheInit /\ SendInit
    /\ AuxIdle

CacheNext ==
    \/ CallPwmBase
    \/ CallReadMaxBrightness
    \/ \E v \in BrightnessValues : CallWriteBrightness(v)

CacheSpec == CacheSpecInit /\ [][CacheNext]_vars

SendSpecInit == BrokerInit /\ FanInit("daemon") /\ EvalIdle /\ CacheInit /\ SendInit
    /\ AuxIdle

SendNext ==
    \/ \E i \in SendIds : DaemonSend(i)
    \/ \E i \in SendIds : SendConnect(i)
    \/ \E i \in SendIds : SendSleep(i)
    \/ \E i \in SendIds : SendWrite(i)
    \/ \E i \in SendIds : SendRead(i)
    \/ \E i \in SendIds : BrokerPerform(i)

SendSpec == SendSpecInit /\ [][SendNext]_vars

StartSpecInit == StartInit /\ FanInit("direct") /\ EvalIdle /\ CacheInit /\ SendInit /\ RgbInit

StartNext ==
    \/ StartRemove
    \/ StartBind
    \/ StartChmod
    \/ AcceptOk
    \/ AcceptErr
    \/ \E c \in ConnIds : PeerSend(c)

StartSpec == StartSpecInit /\ [][StartNext]_vars

(***************************************************************************)
(* Properties of the broker.                                               *)
(***************************************************************************)
Finished(c) == conns[c].pc \in {"done", "failed"}

\* The handler of c has read a line of text (read_line returned Ok).
HasRead(c) == conns[c].pc \notin {"closed", "read"} /\ conns[c].err # "InvalidData"

\* A serialized Request as the wire protocol defines it.
IsRequestLine(l) ==
    /\ l.utf8
    /\ l.obj
    /\ "cmd" \in DOMAIN l.f
    /\ \/ l.f.cmd = "write" /\ {"path", "value"} \subseteq DOMAIN l.f
       \/ l.f.cmd = "run" /\ {"program", "args"} \subseteq DOMAIN l.f

StartsWith(t, prefix) == Len(t) >= 1 /\ t[1] = prefix

LastSys(c) == conns[c].sys[Len(conns[c].sys)]

PrivOps(c) ==
    Cardinality({i \in 1..Len(conns[c].sys) : conns[c].sys[i].call \in {"open", "spawn"}})

\* C1: every accepted connection gets exactly one Response line before it is
\* closed: never more than one, and never zero once it has delivered input, be
\* that a request, text that does not parse, or bytes that are not UTF-8 (a peer
\* that has gone before the answer, EPIPE, is left aside).
C1_ExactlyOneResponse ==
    \A c \in ConnIds :
        /\ Len(conns[c].out) <= 1
        /\ (Finished(c) /\ conns[c].err # "EPIPE") => Len(conns[c].out) = 1

\* C2: a line that is no Request is answered success=false with an error that
\* starts with "parse error: ", the connection is closed, and the handler has
\* made no file write and spawned no process.
C2_ParseErrorNoEffect ==
    \A c \in ConnIds :
        (HasRead(c) /\ ~IsRequestLine(conns[c].line)) =>
            /\ conns[c].sys = <<>>
            /\ conns[c].child = NoStatus
            /\ conns[c].pc \in {"respond", "done", "failed"}
            /\ conns[c].pc = "done" =>
                  /\ Len(conns[c].out) = 1
                  /\ ~WireSuccess(conns[c].out[1])
                  /\ StartsWith(WireErrorText(conns[c].out[1]), "parse error: ")

C2_Witness ==
    \E c \in ConnIds :
        /\ conns[c].pc = "done"
        /\ conns[c].line = LineNotJson
        /\ conns[c].sent = <<LineNotJson, LineWrite("/f", V5)>>
        /\ conns[c].nread = 1
        /\ Len(conns[c].out) = 1
        /\ files["/f"].data = OldContent

\* C3: a connection performs at most one privileged operation (one file write
\* or one spawn), no system call of it is made twice, nothing follows a failed
\* call, and what the peer sent after the first line is never read: the one
\* operation is that of the first line.
C3_AtMostOneOperation ==
    \A c \in ConnIds :
        /\ PrivOps(c) <= 1
        /\ \A i, j \in 1..Len(conns[c].sys) :
              i # j => conns[c].sys[i].call # conns[c].sys[j].call
        /\ \A i \in 1..Len(conns[c].sys) :
              i < Len(conns[c].sys) => conns[c].sys[i].res = <<>>
        /\ conns[c].nread <= 1
        /\ conns[c].sys # <<>> =>
              /\ IsRequestLine(conns[c].sent[1])
              /\ conns[c].sys[1].call =
                    (IF conns[c].sent[1].f.cmd = "write" THEN "open" ELSE "spawn")

C3_Witness ==
    \E c \in ConnIds :
        /\ conns[c].pc = "done"
        /\ conns[c].sent = <<LineWrite("/f", V5), LineRun("true", <<>>)>>
        /\ conns[c].nread = 1
        /\ PrivOps(c) = 1
        /\ conns[c].child = NoStatus

\* C4: a Write(path, value) leaves the file holding value exactly, answers
\* success=true, error=null if and only if the OS write succeeded, and a failed
\* write answers the OS error text and changes no other file.
C4_WriteReplacesContent ==
    [][\A c \in ConnIds :
          /\ (conns[c].pc = "fs_write" /\ conns'[c].pc = "respond") =>
                /\ conns'[c].resp.success <=> LastSys(c)'.res = <<>>
                /\ conns'[c].resp.success <=> ~conns'[c].resp.error.some
                /\ conns'[c].resp.success =>
                      files'[conns[c].req.path].data = conns[c].req.value
                /\ ~conns'[c].resp.success =>
                      /\ conns'[c].resp.error.text = LastSys(c)'.res
                      /\ files' = files
          /\ (conns[c].pc = "fs_open" /\ conns'[c].pc = "respond") =>
                /\ ~conns'[c].resp.success
                /\ conns'[c].resp.error = Some(ENOENT)
                /\ files' = files
      ]_vars

\* C5: a Run spawns the program once and answers success=true, error=null if
\* and only if it exited with status 0; a non-zero exit code n is answered
\* success=false with the error "exit status: n", a failed spawn with the OS
\* error text.
C5_RunResponse ==
    \A c \in ConnIds :
        (conns[c].pc = "done" /\ conns[c].req.cmd = "run") =>
            LET w == conns[c].out[1]
                st == conns[c].child
            IN /\ PrivOps(c) = 1
               /\ WireSuccess(w) <=> (st.kind = "exit" /\ st.n = 0)
               /\ WireSuccess(w) <=> WireErrorIsNull(w)
               /\ (st.kind = "exit" /\ st.n # 0) =>
                     WireErrorText(w) = <<"exit status: ", NumText(st.n)>>
               /\ LastSys(c).res # <<>> => WireErrorText(w) = LastSys(c).res

\* The response that belongs to connection c: decided by its own line, its own
\* system calls and its own child.
OwnResponse(c) ==
    IF conns[c].req.cmd = "write" THEN WriteResponse(LastSys(c).res)
    ELSE IF conns[c].req.cmd = "run"
    THEN IF conns[c].child.kind \in {"exit", "signal"}
         THEN RunResponse(conns[c].child)
         ELSE SpawnErrorResponse(LastSys(c).res)
    ELSE ParseErrorResponse(ParseRequest(conns[c].line).err)

\* C6: under every interleaving of the handlers, a connection's stream carries
\* only the Response computed from its own request: nothing is written to it
\* before its own handler answers, and what is written is its own outcome.
C6_OwnResponseOnly ==
    \A c \in ConnIds :
        conns[c].out # <<>> =>
            /\ conns[c].pc = "done"
            /\ conns[c].out = <<Serialize(OwnResponse(c))>>

C6_Witness ==
    /\ conns[1].pc = "respond"
    /\ conns[1].req.cmd = "write"
    /\ conns[2].pc = "done"
    /\ conns[2].req.cmd = "run"
    /\ conns[2].out = <<Serialize(RunResponse(Exited(1)))>>
    /\ conns[1].resp = Response(TRUE, None)

\* What a handler needs to take its next step, in terms of its own connection.
Runnable(c) ==
    \/ conns[c].pc \in {"fs_open", "fs_write", "spawn", "wait", "respond"}
    \/ conns[c].pc = "read" /\ conns[c].nread < Len(conns[c].sent)

\* C7: whatever state the other connections are in (a peer that sends nothing,
\* a child that has not ended), the broker can accept a further connection and
\* every handler whose own input or operation is ready can take its step.
C7_NoBlocking ==
    Alive =>
        /\ nAccepted < MaxConns => ENABLED AcceptOk
        /\ \A c \in ConnIds : Runnable(c) => ENABLED HandlerStep(c)

C7_Witness ==
    /\ conns[1].pc = "read"
    /\ conns[1].sent = <<>>
    /\ conns[2].pc = "done"
    /\ conns[2].req.cmd = "write"
    /\ WireSuccess(conns[2].out[1])

\* C8: no failure of a handler ends the broker: main leaves the loop only with
\* an error of accept itself, and after a handler failed the loop still accepts.
C8_HandlerFailureKeepsBroker ==
    /\ mainPc = "exited" => mainErr = "accept"
    /\ (Alive /\ nAccepted < MaxConns /\ \E c \in ConnIds : conns[c].pc = "failed")
          => ENABLED AcceptOk

C8_Witness ==
    /\ Alive
    /\ nAccepted = 1
    /\ conns[1].pc = "failed"
    /\ conns[1].err = "InvalidData"

\* C9: once the socket is bound the accept loop never exits, whatever accept
\* returns and however the connections end.
C9_AcceptLoopNeverExits == mainPc = "accept"

\* C26: a Write is a single atomic overwrite: the file never shows an
\* intermediate state (truncated, or a mixture of two values), and after two
\* concurrent Writes to it it holds exactly one of the two values in full.
C26_AtomicOverwrite ==
    /\ files["/f"].exists
    /\ files["/f"].data \in {OldContent, V5, V128}

\* C31: every Response line the broker sends has success = true exactly when
\* error is null: a successful operation carries no error text, and a parse
\* error, a write error, a spawn error and a non-zero exit each carry one.
C31_SuccessIffNoError ==
    \A c \in ConnIds :
       /\ \A i \in 1..Len(conns[c].out) :
             /\ WireSuccess(conns[c].out[i]) <=> WireErrorIsNull(conns[c].out[i])
             /\ ~WireSuccess(conns[c].out[i]) => WireErrorText(conns[c].out[i]) # <<>>
       /\ conns[c].pc = "respond" =>
             (conns[c].resp.success <=> ~conns[c].resp.error.some)

C31_Witness ==
    /\ Len(conns[1].out) = 1
    /\ Len(conns[2].out) = 1
    /\ WireSuccess(conns[1].out[1])
    /\ ~WireSuccess(conns[2].out[1])
    /\ conns[2].req.cmd = "run"
    /\ conns[2].sys # <<>>
    /\ LastSys(2).call = "spawn"

\* C32: at startup the broker removes what is at the socket path, then
\* binds, then sets the socket's mode to world read/write, and only then
\* accepts: a failed removal or a failed permission change is ignored, a stale
\* socket (or file) in a directory main may write never makes the bind fail,
\* and a failed bind ends the process with no connection accepted.
C32_StartupOrder ==
    [][/\ mainPc = "remove" =>
             /\ mainPc' = "bind"
             /\ sock'.removed = remove_file(sock.entry, sock.writable)
       /\ mainPc = "bind" =>
             /\ sock.removed # "none"
             /\ IF sock'.entry = "listening"
                THEN mainPc' = "chmod"
                ELSE mainPc' = "exited" /\ mainErr' = "bind"
             /\ (sock.was \in {"socket", "file"} /\ sock.writable) =>
                   sock'.entry = "listening"
       /\ mainPc = "chmod" =>
             /\ mainPc' = "accept"
             /\ sock'.chmod # "none"
             /\ sock'.chmod = "ok" => sock'.mode = "0666"
       /\ nAccepted' > 0 =>
             /\ sock'.removed # "none"
             /\ sock'.entry = "listening"
             /\ sock'.chmod # "none"
       /\ mainErr' = "bind" => nAccepted' = 0 /\ mainPc' = "exited"
      ]_vars

C32_Witness ==
    /\ sock.was = "socket"
    /\ sock.removed = "ok"
    /\ sock.chmod = "EPERM"
    /\ nAccepted = 1
    /\ conns[1].sent # <<>>

\* C30: every connection that delivers a complete line eventually receives
\* its Response and is then closed (its peer staying to receive it), and a
\* handler with an operation or an answer pending can always take its step,
\* whatever the other connections do.
C30_EventuallyAnswered ==
    /\ [](\A c \in ConnIds :
            (Alive /\ conns[c].pc \in {"fs_open", "fs_write", "spawn", "wait", "respond"})
               => ENABLED HandlerStep(c))
    /\ \A c \in ConnIds :
          (conns[c].sent # <<>>)
             ~> \/ Len(conns[c].out) = 1 /\ conns[c].pc = "done"
                \/ conns[c].err = "EPIPE"

(***************************************************************************)
(* Properties of the fan control.                                          *)
(***************************************************************************)
\* A step in which the fan loop issues a write (to pwm1_enable or to pwm1).
LoopIssuesWrite == loopPc \in {"enable", "pwm"} /\ loopPc' # loopPc

\* C10: once the UI has switched to Hands-off and issued its PWM-disable write,
\* the loop issues no write to pwm1_enable or pwm1 until another mode is
\* selected, under every interleaving of the handler with a tick.
C10_HandsOffLoopSilent ==
    [][(button = "auto" /\ uiPc = "idle" /\ profileState = NoProfile) => ~LoopIssuesWrite]_vars

\* A step of the fan loop thread.
TickStep == loopPc' # loopPc

\* The writes this step issues reach nothing: no file changes and no request
\* is handed to daemon_send.
NoDeviceEffect == sysfs' = sysfs /\ inflight' = inflight

DisableWrite == WriteReq("pwm1_enable", <<"0">>)
EnableWrite == WriteReq("pwm1_enable", <<"1">>)

\* The Auto handler has replaced the state (it is at its write, or has returned).
AutoStored == button = "auto" /\ uiPc \in {"enable", "idle"}

\* The tick that reads Hands-off after a tick that read a curve.
NextTickAfterSwitch ==
    /\ loopPc = "locked"
    /\ TickStep
    /\ loopProf # NoProfile
    /\ profileState = NoProfile
    /\ AutoStored

\* C11 (as stated): after a switch from Curve(X) to Hands-off the next tick of
\* the loop writes no duty value and writes the PWM-disable flag instead.
C11_NextTickWritesDisable ==
    [][NextTickAfterSwitch => (loopPc' = "sleep" /\ tickWrites' = <<DisableWrite>>)]_vars

\* C11 (amended): after a switch from Curve(X) to Hands-off the next tick of
\* the loop issues no write at all and goes back to sleep; the PWM-disable
\* flag is the one write of the Auto handler that made the switch.
C11_NextTickWritesNothing ==
    [][/\ NextTickAfterSwitch =>
             (loopPc' = "sleep" /\ tickWrites' = <<>> /\ NoDeviceEffect)
       /\ (uiPc = "enable" /\ uiCur = "auto" /\ uiPc' # uiPc) =>
             (uiWrites = <<>> /\ uiWrites' = <<DisableWrite>>)]_vars

C11_Witness ==
    /\ button = "auto"
    /\ uiPc = "idle"
    /\ uiWrites = <<DisableWrite>>
    /\ loopPc = "sleep"
    /\ loopProf = NoProfile
    /\ tickWrites = <<>>
    /\ sysfs.pwm1 = <<"2", "6">>
    /\ sysfs.pwm1_enable = <<"0">>

\* round(percent / 100 * 255) as a byte, stated without the code's steps: the
\* byte nearest to the quotient, the upper one of two equally near.
ExpectedDuty(pct) ==
    CHOOSE k \in 0..255 :
        LET twice == 2 * (k * 100 * pct.den - 255 * pct.num)
        IN (0 - 100 * pct.den) < twice /\ twice <= 100 * pct.den

\* C12: a tick that read Curve(c) and a temperature t issues exactly two
\* writes, "1" to pwm1_enable and then the duty round(eval_curve(c, t) / 100 *
\* 255) to pwm1; every other tick issues none.
C12_TickWrites ==
    [][TickStep =>
          CASE loopPc = "off" -> tickWrites' = <<>>
            [] loopPc = "sleep" -> tickWrites' = <<>>
            [] loopPc = "locked" -> tickWrites' = <<>>
            [] loopPc = "temp" ->
                  /\ tickWrites' = <<>>
                  /\ NoDeviceEffect
                  /\ loopPc' \in {"enable", "sleep"}
                  /\ loopPc' = "enable" => loopProf' = loopProf
            [] loopPc = "enable" ->
                  /\ loopPc' = "pwm"
                  /\ tickWrites' = <<EnableWrite>>
            [] loopPc = "pwm" ->
                  /\ loopPc' = "sleep"
                  /\ Len(tickWrites') = 2
                  /\ tickWrites'[1] = EnableWrite
                  /\ tickWrites'[2].path = "pwm1"
                  /\ ParseF32(tickWrites'[2].value).ok
                  /\ DigitsValue(tickWrites'[2].value) =
                        ExpectedDuty(eval_curve(loopProf, loopTemp))
            [] OTHER -> FALSE]_vars

C12_Witness ==
    /\ loopPc = "sleep"
    /\ loopProf = QUIET_CURVE
    /\ tickWrites = <<EnableWrite, WriteReq("pwm1", <<"2", "6">>)>>
    /\ sysfs.pwm1 = <<"2", "6">>
    /\ sysfs.pwm1_enable = <<"1">>

\* C13: once the Manual handler has stored its state and written the manual
\* duty, the loop writes no duty to pwm1 until the next UI action, whatever
\* the loop was doing when the switch happened.
C13_ManualLoopSilent ==
    [][(button = "manual" /\ uiCur = "manual" /\ uiPc = "idle") =>
          ~(loopPc = "pwm" /\ TickStep)]_vars

\* what a handler has to leave in profile_state, and the writes it has to
\* issue, listed per button
ExpectedState(b) ==
    CASE b = "auto" -> NoProfile
      [] b = "quiet" -> QUIET_CURVE
      [] b = "aggressive" -> AGGRESSIVE_CURVE
      [] b = "manual" -> NoProfile

ExpectedWrites(b) ==
    CASE b = "auto" -> <<DisableWrite>>
      [] b = "quiet" -> <<EnableWrite>>
      [] b = "aggressive" -> <<EnableWrite>>
      [] b = "manual" ->
            <<EnableWrite, WriteReq("pwm1", U8ToString(ExpectedDuty(Pct(slider, 1))))>>

\* C14: a mode handler acts only for the button that became active; it
\* replaces ProfileState before its first write, and issues exactly the writes
\* of its mode: Auto "0" to pwm1_enable, Quiet and Aggressive "1" to
\* pwm1_enable, Manual "1" to pwm1_enable and then the slider's duty to pwm1.
C14_HandlerOrder ==
    /\ uiPc \in {"lock", "store", "enable", "pwm"} => uiCur = button
    /\ uiPc \in {"lock", "store", "enable"} => uiWrites = <<>>
    /\ uiPc \in {"enable", "pwm"} => profileState = ExpectedState(uiCur)
    /\ uiPc = "pwm" => (uiCur = "manual" /\ uiWrites = <<EnableWrite>>)
    /\ (uiPc = "idle" /\ uiCur \in Buttons) =>
          /\ uiCur = button
          /\ profileState = ExpectedState(uiCur)
          /\ uiWrites = ExpectedWrites(uiCur)
    /\ uiQueue # <<>> => uiPc = "emit"

C14_Witness ==
    /\ uiPc = "idle"
    /\ uiCur = "manual"
    /\ slider = 100
    /\ uiWrites = <<EnableWrite, WriteReq("pwm1", <<"2", "5", "5">>)>>
    /\ loopProf = QUIET_CURVE
    /\ sysfs.pwm1 = <<"2", "5", "5">>

\* C15: the value a tick acts on is the value ProfileState has when the tick
\* reads it, never one read by an earlier tick, and no handler replaces the
\* value between the loop's lock and its read.
C15_TickReadsCurrentState ==
    [][/\ (loopPc = "locked" /\ TickStep) =>
             /\ loopProf' = profileState
             /\ loopPc' = (IF profileState = NoProfile THEN "sleep" ELSE "temp")
       /\ (loopPc = "locked" /\ ~TickStep) => profileState' = profileState
       /\ (loopPc \in {"temp", "enable", "pwm"} /\ loopPc' # "sleep") =>
             loopProf' = loopProf]_vars

C15_Witness ==
    /\ loopPc = "temp"
    /\ loopProf = AGGRESSIVE_CURVE
    /\ profileState = AGGRESSIVE_CURVE
    /\ tickWrites = <<>>
    /\ sysfs.pwm1 = <<"2", "6">>

\* C16: the mutex is held by the loop only between its lock and its read, and
\* by a handler only between its lock and its store; while it is held the
\* holder's next step is the release and nothing prevents it.
C16_NoIoUnderLock ==
    /\ lock \in {"free", "loop", "ui"}
    /\ lock = "loop" <=> loopPc = "locked"
    /\ lock = "ui" <=> uiPc = "store"
    /\ lock = "loop" => ENABLED LoopReadProf
    /\ lock = "ui" => ENABLED UiStore

C16_Witness ==
    /\ lock = "ui"
    /\ loopPc = "enable"
    /\ BagCardinality(inflight) = MaxInflight

\* C17: no step of the loop changes ProfileState, the loop thread never ends,
\* and a tick that found no temperature or whose writes failed is followed by
\* the sleep before the next tick.
C17_LoopKeepsState ==
    [][/\ TickStep => profileState' = profileState
       /\ (loopPc = "sleep" /\ lock = "free") => ENABLED LoopTick
       /\ loopPc # "off" => loopPc' \in {"sleep", "locked", "temp", "enable", "pwm"}
       /\ (loopPc = "temp" /\ TickStep /\ loopTemp' = loopTemp) => loopPc' = "sleep"
       /\ (loopPc = "pwm" /\ TickStep) => loopPc' = "sleep"]_vars

C17_Witness ==
    /\ variant = "direct"
    /\ loopPc = "sleep"
    /\ Len(tickWrites) = 2
    /\ sysfs.pwm1 = BootPwm
    /\ profileState = QUIET_CURVE
    /\ ENABLED LoopTick

\* C18: when build_ui found no "aynec" hwmon, the loop thread does not exist,
\* no mode can be selected and the slider has no effect, and no write to
\* pwm1_enable or pwm1 is ever issued.
C18_NoDeviceNoFanControl ==
    (uiPc # "start" /\ ~fan_base.some) =>
        /\ loopPc = "off"
        /\ uiPc = "idle"
        /\ button = "none"
        /\ profileState = NoProfile
        /\ tickWrites = <<>>
        /\ uiWrites = <<>>
        /\ inflight = EmptyBag
        /\ sysfs = [pwm1_enable |-> BootEnable, pwm1 |-> BootPwm]
        /\ \A b \in Buttons : ~ENABLED Select(b)
        /\ \A v \in SliderValues : ~ENABLED SliderChange(v)
        /\ ~ENABLED LoopTick

C18_Witness == uiPc = "idle" /\ ~fan_base.some /\ loopPc = "off"

\* a read of a sensor file that gives no temperature: unreadable or not a number
ReadFails(r) == ~(r.file.readable /\ ParseF32(Trim(r.file.content)).ok)

\* C27: read_temp reads the sensors 1..5 in ascending order and returns the
\* first value that reads and parses (in thousandths of a degree here), without
\* reading a later sensor; unreadable and unparsable sensors are skipped; when
\* none succeeds the tick ends without a write.
C27_FirstReadableSensor ==
    [][(loopPc = "temp" /\ TickStep) =>
          LET n == Len(loopReads')
          IN /\ n \in 1..5
             /\ \A j \in 1..n : loopReads'[j].idx = j
             /\ \A j \in 1..(n - 1) : ReadFails(loopReads'[j])
             /\ IF ReadFails(loopReads'[n])
                THEN /\ n = 5
                     /\ loopPc' = "sleep"
                     /\ tickWrites' = <<>>
                     /\ NoDeviceEffect
                ELSE /\ loopPc' = "enable"
                     /\ loopTemp' = DigitsValue(Trim(loopReads'[n].file.content))
      ]_vars

C27_Witness ==
    /\ loopPc = "enable"
    /\ Len(loopReads) = 3
    /\ loopReads[1].file = Unreadable
    /\ loopReads[2].file = Content(Garbage)
    /\ loopTemp = 45000

\* The PWM-enable write of a tick, made directly, has failed: pwm1_enable does
\* not hold "1" after it.
EnableWriteFailed ==
    /\ variant = "direct"
    /\ loopPc = "enable"
    /\ TickStep
    /\ sysfs'.pwm1_enable # <<"1">>

\* C28: a hardware write failure during a Curve tick is logged and the tick is
\* skipped: when the PWM-enable write of a tick fails the tick does not go on
\* to write the duty byte.
C28_FailedEnableSkipsTick == [][EnableWriteFailed => loopPc' # "pwm"]_vars

\* C29: ProfileState holds one of three distinguishable kinds of value,
\* Hands-off, Curve(c) or Manual(duty): the state stored by the Manual handler
\* differs from the state the Auto handler stores.
C29_ManualStateDistinct ==
    (uiPc = "idle" /\ uiCur = "manual" /\ button = "manual") =>
       profileState # ProfileOf("auto")

\* a curve of five points, temperatures strictly increasing, percents in 0..100
WellFormed(curve) ==
    /\ Len(curve) = 5
    /\ \A i \in 1..4 : curve[i].temp < curve[i + 1].temp
    /\ \A i \in 1..5 : curve[i].percent >= 0 /\ curve[i].percent <= 100

\* C33: both predefined curves are well formed (five points, temperatures
\* strictly increasing, percents within 0..100) and constant: the curve
\* ProfileState or the loop holds is always one of the two, point for point.
C33_CurvesConstant ==
    /\ WellFormed(QUIET_CURVE)
    /\ WellFormed(AGGRESSIVE_CURVE)
    /\ profileState \in {NoProfile, QUIET_CURVE, AGGRESSIVE_CURVE}
    /\ loopProf \in {NoProfile, QUIET_CURVE, AGGRESSIVE_CURVE}
    /\ button = "quiet" /\ uiCur = "quiet" /\ uiPc = "idle" => profileState = QUIET_CURVE
    /\ button = "aggressive" /\ uiCur = "aggressive" /\ uiPc = "idle" =>
          profileState = AGGRESSIVE_CURVE

C33_Witness ==
    /\ loopPc = "pwm"
    /\ loopProf = QUIET_CURVE
    /\ profileState = AGGRESSIVE_CURVE
    /\ tickWrites # <<>>

(***************************************************************************)
(* Properties of eval_curve.                                               *)
(***************************************************************************)
\* equality of two fractions
PctEq(a, b) == a.num * b.den = b.num * a.den

RECURSIVE Gcd(_, _)
Gcd(a, b) == IF b = 0 THEN a ELSE Gcd(b, a % b)

\* a fraction in lowest terms
Reduced(p) ==
    LET g == Gcd(IF p.num < 0 THEN 0 - p.num ELSE p.num, p.den)
    IN Pct(p.num \div g, p.den \div g)

StrictlyIncreasing(curve) ==
    \A i \in 1..(Len(curve) - 1) : curve[i].temp < curve[i + 1].temp

\* C19: for a curve with strictly increasing temperatures eval_curve returns
\* the first point's percent at and below the first temperature and the last
\* point's percent at and above the last; the call returns for every
\* temperature.
C19_Clamped ==
    /\ StrictlyIncreasing(evCurve)
    /\ ~evOut.returned => ENABLED EvalCall
    /\ evOut.returned =>
          /\ evOut.pct.den > 0
          /\ evTemp <= 1000 * evCurve[1].temp =>
                PctEq(evOut.pct, Pct(evCurve[1].percent, 1))
          /\ evTemp >= 1000 * evCurve[Len(evCurve)].temp =>
                PctEq(evOut.pct, Pct(evCurve[Len(evCurve)].percent, 1))

C19_Witness ==
    /\ evOut.returned
    /\ evCurve = QUIET_CURVE
    /\ evTemp = 30000
    /\ evOut.pct = Pct(0, 1)

\* the pairs of adjacent points with t0 < temp <= t1
PairsAround(curve, milli) ==
    { i \in 1..(Len(curve) - 1) :
         1000 * curve[i].temp < milli /\ milli <= 1000 * curve[i + 1].temp }

\* C20: strictly inside the range of the curve exactly one pair of adjacent
\* points has t0 < temp <= t1 and eval_curve returns p0 + (temp - t0) / (t1 -
\* t0) * (p1 - p0); at the temperature of a point it returns that point's
\* percent, and at the midpoint of a pair the mean of the two percents.
C20_Interpolated ==
    evOut.returned =>
       /\ (1000 * evCurve[1].temp < evTemp /\ evTemp < 1000 * evCurve[Len(evCurve)].temp) =>
             /\ Cardinality(PairsAround(evCurve, evTemp)) = 1
             /\ \A i \in PairsAround(evCurve, evTemp) :
                   LET t0 == 1000 * evCurve[i].temp
                       t1 == 1000 * evCurve[i + 1].temp
                       p0 == evCurve[i].percent
                       p1 == evCurve[i + 1].percent
                   IN Reduced(evOut.pct) =
                         Reduced(Pct(p0 * (t1 - t0) + (evTemp - t0) * (p1 - p0), t1 - t0))
       /\ \A j \in 1..Len(evCurve) :
             evTemp = 1000 * evCurve[j].temp =>
                PctEq(evOut.pct, Pct(evCurve[j].percent, 1))
       /\ \A i \in 1..(Len(evCurve) - 1) :
             2 * evTemp = 1000 * (evCurve[i].temp + evCurve[i + 1].temp) =>
                PctEq(evOut.pct, Pct(evCurve[i].percent + evCurve[i + 1].percent, 2))

C20_Witness ==
    /\ evOut.returned
    /\ evCurve = QUIET_CURVE
    /\ evTemp = 65000
    /\ evOut.pct.num = 55 * evOut.pct.den

NonDecreasing(curve) ==
    \A i \in 1..(Len(curve) - 1) : curve[i].percent <= curve[i + 1].percent

\* a <= b for two fractions with positive denominators
PctLe(a, b) ==
    LET x == Reduced(a)
        y == Reduced(b)
    IN x.num * y.den <= y.num * x.den

\* C21: for a curve whose percents are non-decreasing eval_curve is monotonic
\* over the whole temperature axis: the value returned at a temperature is at
\* most the value at every higher temperature, across segment boundaries and
\* in the clamped regions; both predefined curves are such curves.
C21_Monotonic ==
    /\ NonDecreasing(QUIET_CURVE)
    /\ NonDecreasing(AGGRESSIVE_CURVE)
    /\ (evOut.returned /\ NonDecreasing(evCurve)) =>
          \A t2 \in EvalTemps :
             /\ t2 >= evTemp => PctLe(evOut.pct, eval_curve(evCurve, t2))
             /\ t2 <= evTemp => PctLe(eval_curve(evCurve, t2), evOut.pct)

C21_Witness ==
    /\ evOut.returned
    /\ evCurve = AGGRESSIVE_CURVE
    /\ evTemp = 50000
    /\ evOut.pct.num = 60 * evOut.pct.den

\* C22: the conversion of a percent to a duty gives 0 for percent 0 and 255
\* for percent 100, in the loop (the percent eval_curve returned) and in the
\* two manual computations (the position of the slider).
C22_DutyEndpoints ==
    /\ evDuty["loop"] # NoDuty =>
          /\ PctEq(evOut.pct, Pct(0, 1)) => evDuty["loop"] = 0
          /\ PctEq(evOut.pct, Pct(100, 1)) => evDuty["loop"] = 255
    /\ \A s \in {"toggled", "changed"} :
          evDuty[s] # NoDuty =>
             /\ evSlider = 0 => evDuty[s] = 0
             /\ evSlider = 100 => evDuty[s] = 255

C22_Witness ==
    /\ evCurve = QUIET_CURVE
    /\ evTemp = 80000
    /\ evSlider = 100
    /\ evDuty = [s \in DutySites |-> 255]

\* C34: for both predefined curves and every temperature eval_curve returns a
\* percent within 0..100, so the duty the loop computes from it is the rounded
\* value itself, a whole number within 0..255: the cast to a byte neither
\* saturates nor wraps.
C34_DutyInRange ==
    evCurve \in {QUIET_CURVE, AGGRESSIVE_CURVE} =>
       /\ evOut.returned =>
             /\ evOut.pct.den > 0
             /\ evOut.pct.num >= 0
             /\ evOut.pct.num <= 100 * evOut.pct.den
       /\ evDuty["loop"] # NoDuty =>
             /\ evDuty["loop"] \in 0..255
             /\ evDuty["loop"] = Round(evOut.pct.num * 255, evOut.pct.den * 100)

C34_Witness ==
    /\ evCurve = QUIET_CURVE
    /\ evTemp = 65000
    /\ evDuty["loop"] = 140

(***************************************************************************)
(* Properties of the lazily resolved hardware handles.                     *)
(***************************************************************************)
PwmBaseReturned == calls'["pwm_base"] = calls["pwm_base"] + 1

\* C23: the discovery of the fan controller runs at most once per process:
\* once PWM_BASE is set no call scans again or changes it, every call returns
\* the result of the first, and a "not found" is never followed by a scan.
C23_PwmBaseOnce ==
    [][/\ scans'.hwmon <= 1
       /\ PwmBaseReturned =>
             /\ PWM_BASE'.set
             /\ lastCall' = Call("pwm_base", <<PWM_BASE'.value>>)
       /\ PWM_BASE.set =>
             /\ PWM_BASE' = PWM_BASE
             /\ scans'.hwmon = scans.hwmon
       /\ (PWM_BASE.set /\ ~PWM_BASE.value.some /\ PwmBaseReturned) =>
             /\ scans'.hwmon = 1
             /\ lastCall'.ret = <<None>>
      ]_vars

C23_Witness ==
    /\ calls["pwm_base"] = 3
    /\ scans.hwmon = 1
    /\ PWM_BASE = OnceFull(None)
    /\ lastCall = Call("pwm_base", <<None>>)

BacklightFailed == scans.backlight >= 1 /\ ~BacklightResolved(MAX_BRIGHTNESS, BRIGHTNESS_PATH)

\* C24: the backlight is resolved once and a failure is permanent: after a
\* discovery, failed or not, no later call discovers again, and once resolved
\* the cached path and maximum never change.
C24_BacklightResolvedOnce ==
    [][/\ scans.backlight >= 1 => scans'.backlight = scans.backlight
       /\ BacklightFailed => ~BacklightResolved(MAX_BRIGHTNESS', BRIGHTNESS_PATH')
       /\ BacklightResolved(MAX_BRIGHTNESS, BRIGHTNESS_PATH) =>
             /\ MAX_BRIGHTNESS' = MAX_BRIGHTNESS
             /\ BRIGHTNESS_PATH' = BRIGHTNESS_PATH
      ]_vars

(***************************************************************************)
(* Properties of daemon_send.                                              *)
(***************************************************************************)
\* the positions in applied of the calls that wrote to the path
AppliedTo(path) == { k \in 1..Len(applied) : sends[applied[k]].req.path = path }

\* the call whose value the file at the path holds: the last one applied
LastApplied(path) ==
    applied[CHOOSE k \in AppliedTo(path) : \A l \in AppliedTo(path) : l <= k]

\* C35: the writes the UI issues one after another through the broker are
\* applied in the order they were issued, and once every call is over and
\* every request was performed, a file holds the value of the last call that
\* wrote to it.
C35_AppliedInIssueOrder ==
    /\ \A k, l \in 1..Len(applied) : k < l => applied[k] < applied[l]
    /\ (Len(applied) = MaxSends /\ \A i \in SendIds : sends[i].pc = "done") =>
          \A path \in {"pwm1_enable", "pwm1"} :
             AppliedTo(path) # {} =>
                \A i \in SendIds : sends[i].req.path = path => i <= LastApplied(path)

\* C36: a daemon_send call delivers its request line at most once: it makes at
\* most 3 connects, writes the line on the first connection it gets and then
\* makes no further connect, whether the write and the read succeed or not;
\* when all 3 connects fail the request is dropped and never performed.
C36_AtMostOnceDelivery ==
    \A i \in SendIds :
       LET t == sends[i]
           connected == t.attempts - t.logged
       IN /\ t.attempts <= ConnectAttempts
          /\ t.delivered <= 1
          /\ connected \in {0, 1}
          /\ t.pc \in {"unspawned", "connect", "sleep"} => connected = 0
          /\ t.pc \in {"write", "read"} => connected = 1
          /\ t.delivered = 1 => connected = 1 /\ t.pc \in {"read", "done"}
          /\ t.logged = ConnectAttempts =>
                t.pc \in {"sleep", "done"} /\ t.delivered = 0
          /\ (\E k \in 1..Len(applied) : applied[k] = i) => t.delivered = 1
          /\ Cardinality({k \in 1..Len(applied) : applied[k] = i}) <= 1

C36_Witness ==
    /\ sends[1].pc = "done"
    /\ sends[1].logged = 3
    /\ sends[2].pc = "done"
    /\ sends[2].attempts = 3
    /\ sends[2].delivered = 1
    /\ applied = <<2>>

\* C25: no retries anywhere: a request the UI issues to the broker is
\* attempted a single time, a failed connect is not followed by another
\* attempt, and every failure is surfaced once.
C25_SingleAttempt ==
    \A i \in SendIds :
       /\ sends[i].attempts <= 1
       /\ sends[i].logged <= 1
       /\ sends[i].logged = 1 => sends[i].pc \in {"sleep", "done"}

\* ---------------------------------------------------------------------------
\* C37: a change of the manual-speed slider issues PWM writes only while the
\* Manual button is active: in any other mode (or none) the handler returns
\* with nothing written, and no step of the slider handler modifies
\* ProfileState, whatever the mode.
SliderStep == slider' # slider \/ uiPc \in {"slider_enable", "slider_pwm"}

C37_SliderWritesOnlyInManual ==
    [][SliderStep =>
          /\ profileState' = profileState
          /\ button # "manual" =>
                /\ sysfs' = sysfs
                /\ inflight' = inflight
                /\ uiWrites' = <<>>
                /\ uiPc' = "idle"
          /\ (sysfs' # sysfs \/ inflight' # inflight \/ uiWrites' # <<>>) =>
                button = "manual"]_vars

\* the slider was moved while Quiet was selected, and the handler returned
\* with nothing written
C37_Witness ==
    /\ uiCur = "slider"
    /\ uiPc = "idle"
    /\ button = "quiet"
    /\ slider # 0
    /\ uiWrites = <<>>

\* ---------------------------------------------------------------------------
\* C38: ProfileState starts as Hands-off, and until the user selects a fan
\* mode neither the loop nor any handler issues a write to pwm1_enable or
\* pwm1: the loop's ticks read Hands-off and go back to sleep, a slider change
\* returns at once, and the fan's control mode and duty stay as they were when
\* the program started.
NoModeSelected == button = "none"

C38_NoWriteBeforeSelection ==
    NoModeSelected =>
        /\ profileState = NoProfile
        /\ loopPc \in {"off", "sleep", "locked"}
        /\ loopProf = NoProfile
        /\ uiPc \in {"start", "idle"}
        /\ tickWrites = <<>>
        /\ uiWrites = <<>>
        /\ inflight = EmptyBag
        /\ sysfs = [pwm1_enable |-> BootEnable, pwm1 |-> BootPwm]

\* no mode selected yet: the device was found, a tick of the loop holds the
\* lock to read the state, and the slider has been moved
C38_Witness ==
    /\ NoModeSelected
    /\ fan_base.some
    /\ loopPc = "locked"
    /\ lock = "loop"
    /\ uiCur = "slider"
    /\ slider # 0

\* ---------------------------------------------------------------------------
\* the marker and the registered timers agree, and there is at most one timer;
\* a change event that no apply has followed yet has a timer pending; and with
\* no such event the last apply issued the hue and brightness that are set now
RgbOneTimer ==
    /\ Cardinality(timers) <= 1
    /\ pending.some <=> timers # {}
    /\ pending.some => timers = {pending.id}
    /\ unapplied => timers # {}
    /\ (~unapplied /\ lastApply # <<>>) => lastApply = apply_settings(hue, brightness)

\* a step of a change event that changed the hue or the brightness
RgbChangeStep == hue' # hue \/ brightness' # brightness

\* a step in which a timer fired
RgbFireStep == timers' # timers /\ timers' \subseteq timers

RgbSchedulerStep ==
    /\ (RgbChangeStep /\ pending.some) =>
          /\ timers' = timers
          /\ pending' = pending
          /\ nextSource' = nextSource
          /\ lastApply' = lastApply
    /\ (RgbChangeStep /\ ~pending.some) =>
          /\ timers' = {nextSource}
          /\ pending' = SomeSource(nextSource)
          /\ lastApply' = lastApply
    /\ RgbFireStep =>
          /\ rgbWrites' = apply_settings(hue, brightness)
          /\ lastApply' = apply_settings(hue, brightness)
          /\ pending' = NoSource
          /\ timers' = {}
          /\ ~unapplied'

\* C39: the RGB apply scheduler keeps at most one apply timer pending: a
\* change event that arrives while a timer is pending schedules nothing, the
\* firing of the timer runs apply_settings exactly once, with the hue and
\* brightness set at that moment, and clears the pending marker, and every
\* change event is followed by a run of apply_settings, so that the last
\* hue and brightness set are the ones the last apply issued.
C39_OneTimerLastValueApplied ==
    /\ []RgbOneTimer
    /\ [][RgbSchedulerStep]_vars
    /\ (unapplied ~> ~unapplied)

\* hue and brightness were both changed with one timer registered in all: the
\* second change arrived while the timer was pending, and the timer has fired
C39_Witness ==
    /\ rgbMode = "manual"
    /\ nextSource = 2
    /\ timers = {}
    /\ ~pending.some
    /\ hue = 90
    /\ brightness = 128
    /\ lastApply = <<WriteReq("brightness", <<"1", "2", "8">>),
                     WriteReq("multi_intensity", <<"1", "2", "8", " ", "2", "5", "5", " ", "0">>)>>

====
